---- MODULE Spec2Model ----
(***************************************************************************)
(* ccworld-ap-bridge: the inbox activity dispatcher (Handler.Inbox), the   *)
(* local ImportNote operation and the fan-out supervisor                   *)
(* (Handler.StartMessageWorker), over the five tables of the repository.   *)
(*                                                                         *)
(* Every database round trip and every outbound HTTP or service call of a  *)
(* handler is one step of that handler, so that parallel requests          *)
(* interleave exactly where the Go code can be suspended.  Strings the     *)
(* code only compares are strings here; CC object ids (message and         *)
(* association ids, minted by the CC services) are positive integers and   *)
(* the empty id "" is 0.                                                   *)
(***************************************************************************)
EXTENDS Integers, Sequences, FiniteSets, TLC

\* ------------------------------------------------------------------ bounds
\* Total number of requests (inbox deliveries, ImportNote calls) started.
MaxDeliver == 3
\* Number of CC events published on home streams.
MaxEvents == 2
\* Number of worker goroutines alive at the same time.
MaxWorkers == 2
\* Number of attachments of a Note, and the length of an attachment url.
MaxAttach == 2
MaxUrlLen == 20
\* How far the content lengths tried lie from 0 and from the limit.
MaxSlack == 40
\* Number of pieces a message body is put together from.
MaxPieces == 3
\* Number of words and separators of a webfinger resource.
MaxResource == 5
\* Number of tags of a Like.
MaxTags == 2

\* Number of links of a WebFinger response.
MaxLinks == 3

\* ------------------------------------------------------- the fixed universe
FQDN == "cc.example"
OtherHost == "remote.example"
Slots == {"s1", "s2"}
Actors == {"r1"}
FollowIDs == {"f1", "f2"}
LikeIDs == {"L1"}
NoteIDs == {"N1"}
LocalNames == {"alice", "bob"}
NoCc == 0
\* A CC message of alice that exists from the start, and an id of no message.
LocalNote == 1
MissingNote == 99

InboxOf(actor) == <<actor, "inbox">>

VARIABLES
    entities,      \* ApEntity rows
    follows,       \* ApFollow rows
    followers,     \* ApFollower rows
    refs,          \* ApObjectReference rows
    messages,      \* CC messages held by the message service
    associations,  \* CC associations held by the association service
    nextCc,        \* next id the CC services mint
    accepts,       \* Accept activities POSTed, per remote inbox
    svcCalls,      \* calls made to the association service
    reqs,          \* the requests in flight, per slot
    started,       \* requests started so far
    answered,      \* <<activity, response body>> of every request answered
    sup,           \* the supervisor loop of StartMessageWorker
    registered,    \* keys of its workers map
    workers,       \* the worker goroutines
    published,     \* CC events published so far
    delivered,     \* POSTs made by workers, per <<event, inbox>>
    persons,       \* ApPerson rows
    conv,          \* a conversion function's argument, result and calls
    sent           \* ids of the Follow activities POSTed to remote inboxes

vars == <<entities, follows, followers, refs, messages, associations, nextCc,
          accepts, svcCalls, reqs, started, answered, sup, registered,
          workers, published, delivered, persons, conv, sent>>

dbVars == <<entities, follows, followers, refs, messages, associations, nextCc,
            accepts, svcCalls>>
workerVars == <<sup, registered, workers, published, delivered>>
sideVars == <<persons, conv, sent>>

\* ------------------------------------------------------------- activities
NoAct == [type |-> "", inner |-> "", id |-> "", actor |-> "", host |-> "",
          user |-> "", path |-> "", target |-> 0, home |-> "", name |-> "",
          signed |-> TRUE]

\* Follow{id, actor, object: https://<host>/ap/acct/<user>} POSTed to
\* /ap/acct/<path>/inbox: the inbox of the entity the Follow names, or the
\* inbox of another entity.
FollowActs ==
    { [NoAct EXCEPT !.type = "Follow", !.id = f, !.actor = a, !.host = FQDN,
                    !.user = "alice", !.path = p] :
        f \in FollowIDs, a \in Actors, p \in LocalNames }

\* Undo{object: Follow{actor, object: https://<host>/ap/acct/<user>}}.
UndoFollowActs ==
    { [NoAct EXCEPT !.type = "Undo", !.inner = "Follow", !.actor = a,
                    !.host = h, !.user = u] :
        a \in Actors, h \in {FQDN, OtherHost}, u \in {"alice"} }

\* Like{id, actor, object: https://<host>/ap/note/<target>}.
LikeActs ==
    { [NoAct EXCEPT !.type = "Like", !.id = l, !.actor = a, !.host = h,
                    !.target = m] :
        l \in LikeIDs, a \in Actors, h \in {FQDN}, m \in {LocalNote, MissingNote} }

\* Create{actor, object: {type, id}}.
CreateActs ==
    { [NoAct EXCEPT !.type = "Create", !.inner = t, !.id = n, !.actor = a] :
        t \in {"Note", "Question"}, n \in NoteIDs, a \in Actors }

\* Delete{object: {id}}.
DeleteActs == { [NoAct EXCEPT !.type = "Delete", !.id = n] : n \in NoteIDs }

\* Undo{object: Like{id}}.
UndoLikeActs ==
    { [NoAct EXCEPT !.type = "Undo", !.inner = "Like", !.id = l] : l \in LikeIDs }

\* GET /ap/api/import?note=<id> by the CC user <user> (the JWT issuer).
ImportActs ==
    { [NoAct EXCEPT !.type = "Import", !.id = n, !.user = "CCalice"] :
        n \in NoteIDs }

\* Activities of a type the switch has no case for.
UnhandledActs ==
    { [NoAct EXCEPT !.type = t, !.id = n, !.actor = a] :
        t \in {"Announce", "Update"}, n \in NoteIDs, a \in Actors }

\* The snapshot a request keeps of the state it started in.
Snapshot ==
    [followers |-> followers, follows |-> follows, refs |-> refs,
     messages |-> messages, associations |-> associations,
     accepts |-> accepts, svcCalls |-> svcCalls, answered |-> answered]

NoSnapshot ==
    [followers |-> {}, follows |-> {}, refs |-> {}, messages |-> {},
     associations |-> {}, accepts |-> [i \in {InboxOf(a) : a \in Actors} |-> 0],
     svcCalls |-> 0, answered |-> {}]

\* held: the row a handler read and keeps; content: what its JSON answer
\* carries.
Idle == [act |-> NoAct, pc |-> "idle", status |-> 0, body |-> "",
         upFail |-> FALSE, cc |-> NoCc, author |-> "", pre |-> NoSnapshot,
         held |-> <<>>, content |-> <<>>]

InFlight(s) == reqs[s].pc \notin {"idle", "done"}
Quiescent == \A s \in Slots : ~InFlight(s)

\* c.String(status, body): the handler returns.
Respond(s, status, body) ==
    /\ reqs' = [reqs EXCEPT ![s].pc = "done", ![s].status = status,
                            ![s].body = body]
    /\ answered' = answered \cup {<<reqs[s].act, body>>}

\* The same, after an upstream call (remote server or CC service) failed.
RespondUpstream(s, status, body) ==
    /\ reqs' = [reqs EXCEPT ![s].pc = "done", ![s].status = status,
                            ![s].body = body, ![s].upFail = TRUE]
    /\ answered' = answered \cup {<<reqs[s].act, body>>}

\* The handler goes on, with its local variables as in r.
Step(s, r) ==
    /\ reqs' = [reqs EXCEPT ![s] = r]
    /\ UNCHANGED answered

Goto(s, pc) == Step(s, [reqs[s] EXCEPT !.pc = pc])

\* ------------------------------------------------------------- repository
GetEntityByID(id) == { e \in entities : e.id = id }
GetEntityByCCID(ccid) == { e \in entities : e.ccid = ccid }

GetFollowerByTuple(local, remote) ==
    { f \in followers : f.publisher = local /\ f.subscriber = remote }

\* Variant: a table without the unique index on the tuple.
SaveFollowerOK_PrimaryKeyOnly(row) ==
    \A f \in followers : f.id # row.id

\* db.Create on ApFollower: primary key id, unique index
\* (subscriber_person_url, publisher_user_id).
SaveFollowerOK(row) ==
    /\ \A f \in followers : f.id # row.id
    /\ GetFollowerByTuple(row.publisher, row.subscriber) = {}

RemoveFollower(local, remote) ==
    followers \ GetFollowerByTuple(local, remote)

\* strings.Split(object.Object, "/") and its last element.
LastSegment(a) == a.user

\* strings.TrimPrefix(obj, "https://"+FQDN+"/ap/acct/"): a URL of another
\* host is left whole, and is the id of no local entity.
TrimAcctPrefix(a) == IF a.host = FQDN THEN a.user ELSE "https://other"

\* --------------------------------------------------- Inbox: receiving
\* Variant: a Create is handled as a Note whatever the type of its object.
FirstPc_CreateAnyType(a) ==
    CASE a.type = "Follow" -> "follow_entity"
      [] a.type = "Undo" /\ a.inner = "Follow" -> "undofollow_check"
      [] a.type = "Like" -> "like_get"
      [] a.type = "Create" -> "create_lookup"
      [] a.type = "Undo" /\ a.inner = "Like" -> "undolike_lookup"
      [] a.type = "Delete" -> "delete_lookup"
      [] a.type = "Import" -> "import_entity"
      [] a.type = "CreateEntity" -> "entity_lookup"
      [] a.type = "GetEntityID" -> "entityid_lookup"
      [] a.type = "FollowApi" -> "followapi_entity"
      [] a.type = "Accept" /\ a.inner = "Follow" -> "accept_get"
      [] a.type = "UpdatePerson" -> "person_entity"
      [] a.type = "UnFollowApi" -> "unfollow_entity"
      [] OTHER -> "default"

\* c.Bind and the switch on object.Type.
FirstPc(a) ==
    CASE a.type = "Follow" -> "follow_entity"
      [] a.type = "Undo" /\ a.inner = "Follow" -> "undofollow_check"
      [] a.type = "Like" -> "like_get"
      [] a.type = "Create" /\ a.inner = "Note" -> "create_lookup"
      [] a.type = "Undo" /\ a.inner = "Like" -> "undolike_lookup"
      [] a.type = "Delete" -> "delete_lookup"
      [] a.type = "Import" -> "import_entity"
      [] a.type = "CreateEntity" -> "entity_lookup"
      [] a.type = "GetEntityID" -> "entityid_lookup"
      [] a.type = "FollowApi" -> "followapi_entity"
      [] a.type = "Accept" /\ a.inner = "Follow" -> "accept_get"
      [] a.type = "UpdatePerson" -> "person_entity"
      [] a.type = "UnFollowApi" -> "unfollow_entity"
      [] OTHER -> "default"

\* A request arrives; the answers of the requests that returned are gone.
Start(s, a) ==
    /\ ~InFlight(s)
    /\ started < MaxDeliver
    /\ started' = started + 1
    /\ reqs' = [t \in Slots |->
                  IF t = s
                  THEN [Idle EXCEPT !.act = a, !.pc = FirstPc(a), !.pre = Snapshot]
                  ELSE IF InFlight(t) THEN reqs[t] ELSE Idle]
    /\ UNCHANGED <<dbVars, answered, workerVars, sideVars>>

\* A request that arrives when no other is being handled.
StartAlone(s, a) == Quiescent /\ Start(s, a)

\* ----------------------------------------------------- Inbox: case Follow
FollowGetEntity(s) ==
    /\ reqs[s].pc = "follow_entity"
    /\ IF GetEntityByID(reqs[s].act.path) = {}
       THEN Respond(s, 404, "entity not found")
       ELSE Goto(s, "follow_fetch")
    /\ UNCHANGED <<dbVars, started, workerVars, sideVars>>

FollowFetchPerson(s) ==
    /\ reqs[s].pc = "follow_fetch"
    /\ \E ok \in BOOLEAN :
         IF ok THEN Goto(s, "follow_accept")
         ELSE RespondUpstream(s, 400, "Invalid request body")
    /\ UNCHANGED <<dbVars, started, workerVars, sideVars>>

\* Variant: the handler goes on to the insert when the Accept POST failed.
FollowPostAccept_FailureIgnored(s) ==
    /\ reqs[s].pc = "follow_accept"
    /\ \E ok \in BOOLEAN :
         IF ok
         THEN /\ accepts' = [accepts EXCEPT ![InboxOf(reqs[s].act.actor)] = @ + 1]
              /\ Goto(s, "follow_check")
         ELSE /\ UNCHANGED accepts
              /\ Step(s, [reqs[s] EXCEPT !.pc = "follow_check", !.upFail = TRUE])
    /\ UNCHANGED <<entities, follows, followers, refs, messages, associations,
                   nextCc, svcCalls, started, workerVars, sideVars>>

FollowPostAccept(s) ==
    /\ reqs[s].pc = "follow_accept"
    /\ \E ok \in BOOLEAN :
         IF ok
         THEN /\ accepts' = [accepts EXCEPT ![InboxOf(reqs[s].act.actor)] = @ + 1]
              /\ Goto(s, "follow_check")
         ELSE /\ UNCHANGED accepts
              /\ RespondUpstream(s, 500, "Internal server error")
    /\ UNCHANGED <<entities, follows, followers, refs, messages, associations,
                   nextCc, svcCalls, started, workerVars, sideVars>>

\* Variant: the handler saves without looking for the row first.
FollowCheck_Skipped(s) ==
    /\ reqs[s].pc = "follow_check"
    /\ Goto(s, "follow_save")
    /\ UNCHANGED <<dbVars, started, workerVars, sideVars>>

FollowCheck(s) ==
    /\ reqs[s].pc = "follow_check"
    /\ IF GetFollowerByTuple(LastSegment(reqs[s].act), reqs[s].act.actor) # {}
       THEN Respond(s, 200, "follow already exists")
       ELSE Goto(s, "follow_save")
    /\ UNCHANGED <<dbVars, started, workerVars, sideVars>>

FollowSave(s) ==
    /\ reqs[s].pc = "follow_save"
    /\ LET a == reqs[s].act
           row == [id |-> a.id, subscriber |-> a.actor,
                   publisher |-> LastSegment(a), inbox |-> InboxOf(a.actor)]
       IN IF SaveFollowerOK(row)
          THEN /\ followers' = followers \cup {row}
               /\ Respond(s, 200, "follow accepted")
          ELSE /\ UNCHANGED followers
               /\ Respond(s, 500, "Internal server error (save follow error)")
    /\ UNCHANGED <<entities, follows, refs, messages, associations, nextCc,
                   accepts, svcCalls, started, workerVars, sideVars>>

\* ------------------------------------------------ Inbox: case Undo/Follow
\* Variant: the handler removes without looking for the row first.
UndoFollowCheck_Skipped(s) ==
    /\ reqs[s].pc = "undofollow_check"
    /\ Goto(s, "undofollow_remove")
    /\ UNCHANGED <<dbVars, started, workerVars, sideVars>>

UndoFollowCheck(s) ==
    /\ reqs[s].pc = "undofollow_check"
    /\ IF GetFollowerByTuple(TrimAcctPrefix(reqs[s].act), reqs[s].act.actor) = {}
       THEN Respond(s, 200, "follow already undoed")
       ELSE Goto(s, "undofollow_remove")
    /\ UNCHANGED <<dbVars, started, workerVars, sideVars>>

UndoFollowRemove(s) ==
    /\ reqs[s].pc = "undofollow_remove"
    /\ followers' = RemoveFollower(TrimAcctPrefix(reqs[s].act), reqs[s].act.actor)
    /\ Respond(s, 200, "OK")
    /\ UNCHANGED <<entities, follows, refs, messages, associations, nextCc,
                   accepts, svcCalls, started, workerVars, sideVars>>

\* ---------------------------------------------- cross-reference store
GetApObjectReferenceByApObjectID(ap) == { r \in refs : r.ap = ap }

\* WHERE cc_object_id = <id>, called with an AP object id: the ids the CC
\* services mint are no AP ids, so only the empty string is in both.
GetApObjectReferenceByCcObjectID(id) ==
    { r \in refs : id = "" /\ r.cc = NoCc }

\* Variant: an insert that never fails on the primary key.
CreateApObjectReferenceOK_NoPrimaryKey(ap) == ap = ap

\* db.Create on ApObjectReference: primary key ap_object_id.
CreateApObjectReferenceOK(ap) == GetApObjectReferenceByApObjectID(ap) = {}

CreateApObjectReference(ap, cc) == refs \cup {[ap |-> ap, cc |-> cc]}

\* db.Save: insert, or overwrite the row of that primary key.
UpdateApObjectReference(ap, cc) ==
    (refs \ GetApObjectReferenceByApObjectID(ap)) \cup {[ap |-> ap, cc |-> cc]}

DeleteApObjectReference(ap) == refs \ GetApObjectReferenceByApObjectID(ap)

\* ------------------------------------------------------- the CC services
MessageGet(id) == { m \in messages : m.id = id }
AssociationGet(id) == { x \in associations : x.id = id }

\* strings.Replace(object.Object, "https://"+FQDN+"/ap/note/", "", 1): the
\* message id when the URL is a local note URL, an id of no message otherwise.
TargetID(a) == IF a.host = FQDN THEN a.target ELSE MissingNote

\* Rows of ApFollow for the publisher, each resolved to its subscriber's
\* entity; the followStream of every entity found.
DestStreams(actor) ==
    { e.followStream :
        e \in { e \in entities :
                  \E f \in follows : f.publisher = actor /\ f.subscriber = e.id } }

\* ------------------------------------------------------- Inbox: case Like
\* Variant: the error of message.Get is not looked at.
LikeGetTarget_ErrorIgnored(s) ==
    /\ reqs[s].pc = "like_get"
    /\ LET found == MessageGet(TargetID(reqs[s].act))
       IN Step(s, [reqs[s] EXCEPT !.pc = "like_claim",
                      !.author = IF found = {} THEN ""
                                 ELSE (CHOOSE m \in found : TRUE).author])
    /\ UNCHANGED <<dbVars, started, workerVars, sideVars>>

LikeGetTarget(s) ==
    /\ reqs[s].pc = "like_get"
    /\ LET found == MessageGet(TargetID(reqs[s].act))
       IN IF found = {}
          THEN Respond(s, 200, "message not found")
          ELSE Step(s, [reqs[s] EXCEPT !.pc = "like_claim",
                           !.author = (CHOOSE m \in found : TRUE).author])
    /\ UNCHANGED <<dbVars, started, workerVars, sideVars>>

\* Variant: the error of the claim insert is not looked at.
LikeClaim_ErrorIgnored(s) ==
    /\ reqs[s].pc = "like_claim"
    /\ refs' = CreateApObjectReference(reqs[s].act.id, NoCc)
    /\ Goto(s, "like_entity")
    /\ UNCHANGED <<entities, follows, followers, messages, associations, nextCc,
                   accepts, svcCalls, started, workerVars, sideVars>>

LikeClaim(s) ==
    /\ reqs[s].pc = "like_claim"
    /\ IF CreateApObjectReferenceOK(reqs[s].act.id)
       THEN /\ refs' = CreateApObjectReference(reqs[s].act.id, NoCc)
            /\ Goto(s, "like_entity")
       ELSE /\ UNCHANGED refs
            /\ Respond(s, 200, "like already exists")
    /\ UNCHANGED <<entities, follows, followers, messages, associations, nextCc,
                   accepts, svcCalls, started, workerVars, sideVars>>

LikeGetEntity(s) ==
    /\ reqs[s].pc = "like_entity"
    /\ IF GetEntityByCCID(reqs[s].author) = {}
       THEN Respond(s, 200, "entity not found")
       ELSE Goto(s, "like_fetch")
    /\ UNCHANGED <<dbVars, started, workerVars, sideVars>>

LikeFetchPerson(s) ==
    /\ reqs[s].pc = "like_fetch"
    /\ \E ok \in BOOLEAN :
         IF ok THEN Goto(s, "like_post")
         ELSE RespondUpstream(s, 200, "failed to fetch actor")
    /\ UNCHANGED <<dbVars, started, workerVars, sideVars>>

\* association.PostAssociation(objstr, objsig, [], "messages").
LikePostAssociation(s) ==
    /\ reqs[s].pc = "like_post"
    /\ svcCalls' = svcCalls + 1
    /\ \E ok \in BOOLEAN :
         IF ok
         THEN /\ associations' = associations \cup
                    {[id |-> nextCc, target |-> TargetID(reqs[s].act),
                      origin |-> reqs[s].act.id]}
              /\ nextCc' = nextCc + 1
              /\ Step(s, [reqs[s] EXCEPT !.pc = "like_fill", !.cc = nextCc])
         ELSE /\ UNCHANGED <<associations, nextCc>>
              /\ RespondUpstream(s, 200,
                    "Internal server error (post association error)")
    /\ UNCHANGED <<entities, follows, followers, refs, messages, accepts,
                   started, workerVars, sideVars>>

LikeFill(s) ==
    /\ reqs[s].pc = "like_fill"
    /\ refs' = UpdateApObjectReference(reqs[s].act.id, reqs[s].cc)
    /\ Respond(s, 200, "like accepted")
    /\ UNCHANGED <<entities, follows, followers, messages, associations, nextCc,
                   accepts, svcCalls, started, workerVars, sideVars>>

\* ------------------------------------------------ Inbox: case Create/Note
CreateLookup(s) ==
    /\ reqs[s].pc = "create_lookup"
    /\ IF GetApObjectReferenceByCcObjectID(reqs[s].act.id) # {}
       THEN Respond(s, 200, "note already exists")
       ELSE Goto(s, "create_claim")
    /\ UNCHANGED <<dbVars, started, workerVars, sideVars>>

CreateClaim(s) ==
    /\ reqs[s].pc = "create_claim"
    /\ IF CreateApObjectReferenceOK(reqs[s].act.id)
       THEN /\ refs' = CreateApObjectReference(reqs[s].act.id, NoCc)
            /\ Goto(s, "create_follows")
       ELSE /\ UNCHANGED refs
            /\ Respond(s, 200, "note already exists")
    /\ UNCHANGED <<entities, follows, followers, messages, associations, nextCc,
                   accepts, svcCalls, started, workerVars, sideVars>>

CreateListFollows(s) ==
    /\ reqs[s].pc = "create_follows"
    /\ IF DestStreams(reqs[s].act.actor) = {}
       THEN Respond(s, 200, "No followers")
       ELSE Goto(s, "create_fetch")
    /\ UNCHANGED <<dbVars, started, workerVars, sideVars>>

CreateFetchPerson(s) ==
    /\ reqs[s].pc = "create_fetch"
    /\ \E ok \in BOOLEAN :
         IF ok THEN Goto(s, "create_post")
         ELSE RespondUpstream(s, 400, "failed to fetch actor")
    /\ UNCHANGED <<dbVars, started, workerVars, sideVars>>

\* NoteToMessage: its error (empty or too long a note, a failing message
\* service) is dropped by the caller, which goes on with the zero Message.
CreateNoteToMessage(s) ==
    /\ reqs[s].pc = "create_post"
    /\ \E ok \in BOOLEAN :
         IF ok
         THEN /\ messages' = messages \cup
                    {[id |-> nextCc, author |-> "proxy",
                      origin |-> reqs[s].act.id]}
              /\ nextCc' = nextCc + 1
              /\ Step(s, [reqs[s] EXCEPT !.pc = "create_fill", !.cc = nextCc])
         ELSE /\ UNCHANGED <<messages, nextCc>>
              /\ Step(s, [reqs[s] EXCEPT !.pc = "create_fill", !.cc = NoCc,
                                      !.upFail = TRUE])
    /\ UNCHANGED <<entities, follows, followers, refs, associations, accepts,
                   svcCalls, started, workerVars, sideVars>>

CreateFill(s) ==
    /\ reqs[s].pc = "create_fill"
    /\ refs' = UpdateApObjectReference(reqs[s].act.id, reqs[s].cc)
    /\ Respond(s, 200, "note accepted")
    /\ UNCHANGED <<entities, follows, followers, messages, associations, nextCc,
                   accepts, svcCalls, started, workerVars, sideVars>>

\* --------------------------------------------------- Inbox: case Delete
DeleteLookup(s) ==
    /\ reqs[s].pc = "delete_lookup"
    /\ LET found == GetApObjectReferenceByApObjectID(reqs[s].act.id)
       IN IF found = {}
          THEN Respond(s, 200, "Object Already Deleted")
          ELSE Step(s, [reqs[s] EXCEPT !.pc = "delete_message",
                           !.cc = (CHOOSE r \in found : TRUE).cc])
    /\ UNCHANGED <<dbVars, started, workerVars, sideVars>>

\* message.Delete(deleteRef.CcObjectID): an error when there is no such
\* message, or when the service fails.
DeleteMessage(s) ==
    /\ reqs[s].pc = "delete_message"
    /\ \E ok \in BOOLEAN :
         IF ok /\ MessageGet(reqs[s].cc) # {}
         THEN /\ messages' = messages \ MessageGet(reqs[s].cc)
              /\ Goto(s, "delete_ref")
         ELSE /\ UNCHANGED messages
              /\ RespondUpstream(s, 500, "Internal server error (delete error)")
    /\ UNCHANGED <<entities, follows, followers, refs, associations, nextCc,
                   accepts, svcCalls, started, workerVars, sideVars>>

\* Variant: the cross-reference row is left behind.
DeleteRef_RowKept(s) ==
    /\ reqs[s].pc = "delete_ref"
    /\ Respond(s, 200, "Deleted")
    /\ UNCHANGED <<dbVars, started, workerVars, sideVars>>

DeleteRef(s) ==
    /\ reqs[s].pc = "delete_ref"
    /\ refs' = DeleteApObjectReference(reqs[s].act.id)
    /\ Respond(s, 200, "Deleted")
    /\ UNCHANGED <<entities, follows, followers, messages, associations, nextCc,
                   accepts, svcCalls, started, workerVars, sideVars>>

\* ------------------------------------------------- Inbox: case Undo/Like
UndoLikeLookup(s) ==
    /\ reqs[s].pc = "undolike_lookup"
    /\ LET found == GetApObjectReferenceByApObjectID(reqs[s].act.id)
       IN IF found = {}
          THEN Respond(s, 404, "like not found")
          ELSE Step(s, [reqs[s] EXCEPT !.pc = "undolike_assoc",
                           !.cc = (CHOOSE r \in found : TRUE).cc])
    /\ UNCHANGED <<dbVars, started, workerVars, sideVars>>

\* Variant: the association service is called but its association stays.
UndoLikeDeleteAssociation_Kept(s) ==
    /\ reqs[s].pc = "undolike_assoc"
    /\ svcCalls' = svcCalls + 1
    /\ Goto(s, "undolike_ref")
    /\ UNCHANGED <<entities, follows, followers, refs, messages, associations,
                   nextCc, accepts, started, workerVars, sideVars>>

\* association.Delete(deleteRef.CcObjectID).
UndoLikeDeleteAssociation(s) ==
    /\ reqs[s].pc = "undolike_assoc"
    /\ svcCalls' = svcCalls + 1
    /\ \E ok \in BOOLEAN :
         IF ok /\ AssociationGet(reqs[s].cc) # {}
         THEN /\ associations' = associations \ AssociationGet(reqs[s].cc)
              /\ Goto(s, "undolike_ref")
         ELSE /\ UNCHANGED associations
              /\ RespondUpstream(s, 500,
                    "Internal server error (delete like error)")
    /\ UNCHANGED <<entities, follows, followers, refs, messages, nextCc,
                   accepts, started, workerVars, sideVars>>

UndoLikeDeleteRef(s) ==
    /\ reqs[s].pc = "undolike_ref"
    /\ refs' = DeleteApObjectReference(reqs[s].act.id)
    /\ Respond(s, 200, "like undoed")
    /\ UNCHANGED <<entities, follows, followers, messages, associations, nextCc,
                   accepts, svcCalls, started, workerVars, sideVars>>

\* ------------------------------- Inbox: default and Create of a non-Note
Default(s) ==
    /\ reqs[s].pc = "default"
    /\ Respond(s, 200, "OK but not implemented")
    /\ UNCHANGED <<dbVars, started, workerVars, sideVars>>

\* ------------------------------------------------------------ ImportNote
ImportGetEntity(s) ==
    /\ reqs[s].pc = "import_entity"
    /\ IF GetEntityByCCID(reqs[s].act.user) = {}
       THEN Respond(s, 404, "entity not found")
       ELSE Goto(s, "import_lookup")
    /\ UNCHANGED <<dbVars, started, workerVars, sideVars>>

ImportLookup(s) ==
    /\ reqs[s].pc = "import_lookup"
    /\ LET found == GetApObjectReferenceByApObjectID(reqs[s].act.id)
       IN IF found = {}
          THEN Goto(s, "import_fetch")
          ELSE Step(s, [reqs[s] EXCEPT !.pc = "import_get",
                           !.cc = (CHOOSE r \in found : TRUE).cc])
    /\ UNCHANGED <<dbVars, started, workerVars, sideVars>>

\* message.Get(existing.CcObjectID): the message is returned when found.
ImportGetExisting(s) ==
    /\ reqs[s].pc = "import_get"
    /\ \E ok \in BOOLEAN :
         IF ok /\ MessageGet(reqs[s].cc) # {}
         THEN Respond(s, 200, "ok")
         ELSE Goto(s, "import_unref")
    /\ UNCHANGED <<dbVars, started, workerVars, sideVars>>

ImportDropReference(s) ==
    /\ reqs[s].pc = "import_unref"
    /\ refs' = DeleteApObjectReference(reqs[s].act.id)
    /\ Goto(s, "import_fetch")
    /\ UNCHANGED <<entities, follows, followers, messages, associations, nextCc,
                   accepts, svcCalls, started, workerVars, sideVars>>

\* FetchNote, then FetchPerson of its author: two signed GETs to the remote.
ImportFetch(s) ==
    /\ reqs[s].pc = "import_fetch"
    /\ \E ok \in BOOLEAN :
         IF ok THEN Goto(s, "import_post")
         ELSE RespondUpstream(s, 500, "Internal server error")
    /\ UNCHANGED <<dbVars, started, workerVars, sideVars>>

ImportNoteToMessage(s) ==
    /\ reqs[s].pc = "import_post"
    /\ \E ok \in BOOLEAN :
         IF ok
         THEN /\ messages' = messages \cup
                    {[id |-> nextCc, author |-> "proxy",
                      origin |-> reqs[s].act.id]}
              /\ nextCc' = nextCc + 1
              /\ Step(s, [reqs[s] EXCEPT !.pc = "import_ref", !.cc = nextCc])
         ELSE /\ UNCHANGED <<messages, nextCc>>
              /\ RespondUpstream(s, 500, "Internal server error")
    /\ UNCHANGED <<entities, follows, followers, refs, associations, accepts,
                   svcCalls, started, workerVars, sideVars>>

ImportSaveReference(s) ==
    /\ reqs[s].pc = "import_ref"
    /\ IF CreateApObjectReferenceOK(reqs[s].act.id)
       THEN /\ refs' = CreateApObjectReference(reqs[s].act.id, reqs[s].cc)
            /\ Respond(s, 200, "ok")
       ELSE /\ UNCHANGED refs
            /\ Respond(s, 500, "Internal server error")
    /\ UNCHANGED <<entities, follows, followers, messages, associations, nextCc,
                   accepts, svcCalls, started, workerVars, sideVars>>

\* ------------------------------------------------------- the local API
\* The PEM block of the RSA key generated for an entity, and the empty
\* string.
PrivKeyPEM(id) == <<"RSA PRIVATE KEY", id>>
NoKey == <<>>

\* No conversion is called. Of a call: its function, its argument, whether it
\* returned, its result, its error and the PostMessage calls it made.
NoConv == [fn |-> "", arg |-> <<>>, returned |-> FALSE, out |-> <<>>,
           err |-> "", posted |-> 0]

\* POST /ap/api/entity by the CC user <user> (the JWT issuer), with the
\* request body {id, homestream}.
CreateEntityActs ==
    { [NoAct EXCEPT !.type = "CreateEntity", !.user = u, !.id = i, !.home = h] :
        u \in {"CCalice", "CCcarol"}, i \in {"alice", "carol"},
        h \in {"", "home_new"} }

\* GET /ap/api/entity/:ccid.
GetEntityIDActs ==
    { [NoAct EXCEPT !.type = "GetEntityID", !.user = u] :
        u \in {"", "CCalice", "CCcarol"} }

\* c.JSON(status, {"status": "ok", "content": content}).
RespondJSON(s, content) ==
    /\ reqs' = [reqs EXCEPT ![s].pc = "done", ![s].status = 200,
                            ![s].body = "ok", ![s].content = content]
    /\ answered' = answered \cup {<<reqs[s].act, "ok">>}

\* db.Save on ApEntity: insert, or overwrite the row of that primary key.
UpdateEntity(row) == { e \in entities : e.id # row.id } \cup {row}

\* CreateEntity: GetEntityByCCID(claims.Issuer) decides between the update
\* and the create branch.
CreateEntityLookup(s) ==
    /\ reqs[s].pc = "entity_lookup"
    /\ LET found == GetEntityByCCID(reqs[s].act.user)
       IN IF found # {}
          THEN \E e \in found :
                  Step(s, [reqs[s] EXCEPT !.pc = "entity_update", !.held = e])
          ELSE Goto(s, "entity_create")
    /\ UNCHANGED <<dbVars, started, workerVars, sideVars>>

\* The update branch: the streams of the request are written into the row
\* read, which is saved and returned with its Privatekey set to "".
CreateEntityUpdate(s) ==
    /\ reqs[s].pc = "entity_update"
    /\ LET updated == [reqs[s].held EXCEPT !.home = reqs[s].act.home]
       IN \E ok \in BOOLEAN :
            IF ok
            THEN /\ entities' = UpdateEntity(updated)
                 /\ RespondJSON(s, [updated EXCEPT !.privatekey = NoKey])
            ELSE /\ UNCHANGED entities
                 /\ RespondUpstream(s, 500, "Internal server error")
    /\ UNCHANGED <<follows, followers, refs, messages, associations, nextCc,
                   accepts, svcCalls, started, workerVars, sideVars>>

\* The create branch: a key pair is generated, the row is inserted (db.Create,
\* primary key id) and returned with its Privatekey set to "".
CreateEntityCreate(s) ==
    /\ reqs[s].pc = "entity_create"
    /\ LET a == reqs[s].act
           created == [id |-> a.id, ccid |-> a.user, home |-> a.home,
                       followStream |-> "fs_new",
                       privatekey |-> PrivKeyPEM(a.id)]
       IN IF GetEntityByID(a.id) = {}
          THEN /\ entities' = entities \cup {created}
               /\ RespondJSON(s, [created EXCEPT !.privatekey = NoKey])
          ELSE /\ UNCHANGED entities
               /\ Respond(s, 500, "Internal server error")
    /\ UNCHANGED <<follows, followers, refs, messages, associations, nextCc,
                   accepts, svcCalls, started, workerVars, sideVars>>

\* Variant: the row is returned as it was read.
GetEntityIDLookup_KeyKept(s) ==
    /\ reqs[s].pc = "entityid_lookup"
    /\ LET found == GetEntityByCCID(reqs[s].act.user)
       IN IF reqs[s].act.user = ""
          THEN Respond(s, 400, "Invalid username")
          ELSE IF found = {}
          THEN Respond(s, 404, "entity not found")
          ELSE \E e \in found : RespondJSON(s, e)
    /\ UNCHANGED <<dbVars, started, workerVars, sideVars>>

\* GetEntityID: the row of the ccid, returned with its Privatekey set to "".
GetEntityIDLookup(s) ==
    /\ reqs[s].pc = "entityid_lookup"
    /\ LET found == GetEntityByCCID(reqs[s].act.user)
       IN IF reqs[s].act.user = ""
          THEN Respond(s, 400, "Invalid username")
          ELSE IF found = {}
          THEN Respond(s, 404, "entity not found")
          ELSE \E e \in found : RespondJSON(s, [e EXCEPT !.privatekey = NoKey])
    /\ UNCHANGED <<dbVars, started, workerVars, sideVars>>

\* --------------------------------------------------------- NoteToMessage
\* ------------------------------------------- local API: Follow and Accept
\* The :id parameter of POST /ap/api/follow/:id, with or without the leading
\* "@".
TargetIDs == {"@r2@remote.example", "r2@remote.example"}

\* if targetID[0] != '@' { targetID = "@" + targetID }, then "@" and "."
\* replaced by "-".
SimpleID(target) ==
    CASE target = "@r2@remote.example" -> "-r2-remote-example"
      [] target = "r2@remote.example" -> "-r2-remote-example"

\* "https://" + FQDN + "/follow/" + entity.ID + "/" + simpleID.
FollowID(entityID, target) ==
    "https://" \o FQDN \o "/follow/" \o entityID \o "/" \o SimpleID(target)

\* POST /ap/api/follow/:id by the CC user <user> (the JWT issuer).
FollowApiActs ==
    { [NoAct EXCEPT !.type = "FollowApi", !.user = u, !.actor = t] :
        u \in {"CCalice", "CCcarol"}, t \in TargetIDs }

\* Accept{object: Follow{id}} POSTed by the remote server.
AcceptActs ==
    { [NoAct EXCEPT !.type = "Accept", !.inner = "Follow",
                    !.id = FollowID(e, t)] :
        e \in LocalNames, t \in TargetIDs }

\* The remote server answers a Follow it has received.
StartAccept(s, a) ==
    /\ a.id \in sent
    /\ Start(s, a)

GetFollowByID(id) == { f \in follows : f.id = id }

\* db.Create on ApFollow: primary key id.
SaveFollowOK(row) == GetFollowByID(row.id) = {}

\* db.Save on ApFollow: insert, or overwrite the row of that primary key.
UpdateFollow(row) == { f \in follows : f.id # row.id } \cup {row}

\* Follow: GetEntityByCCID(claims.Issuer).
FollowApiGetEntity(s) ==
    /\ reqs[s].pc = "followapi_entity"
    /\ LET found == GetEntityByCCID(reqs[s].act.user)
       IN IF found = {}
          THEN Respond(s, 404, "entity not found")
          ELSE \E e \in found :
                  Step(s, [reqs[s] EXCEPT !.pc = "followapi_resolve", !.held = e])
    /\ UNCHANGED <<dbVars, started, workerVars, sideVars>>

\* ResolveActor(targetID): a WebFinger request to the remote host.
FollowApiResolveActor(s) ==
    /\ reqs[s].pc = "followapi_resolve"
    /\ \E ok \in BOOLEAN :
         IF ok THEN Goto(s, "followapi_fetch")
         ELSE RespondUpstream(s, 404, "entity not found")
    /\ UNCHANGED <<dbVars, started, workerVars, sideVars>>

FollowApiFetchPerson(s) ==
    /\ reqs[s].pc = "followapi_fetch"
    /\ \E ok \in BOOLEAN :
         IF ok THEN Goto(s, "followapi_post")
         ELSE RespondUpstream(s, 404, "entity not found")
    /\ UNCHANGED <<dbVars, started, workerVars, sideVars>>

\* PostToInbox(targetPerson.Inbox, Follow{id: followID}).
FollowApiPostToInbox(s) ==
    /\ reqs[s].pc = "followapi_post"
    /\ \E ok \in BOOLEAN :
         IF ok
         THEN /\ sent' = sent \cup {FollowID(reqs[s].held.id, reqs[s].act.actor)}
              /\ Goto(s, "followapi_save")
         ELSE /\ UNCHANGED sent
              /\ RespondUpstream(s, 500, "Internal server error")
    /\ UNCHANGED <<dbVars, started, workerVars, persons, conv>>

\* SaveFollow(ApFollow{ID, PublisherPersonURL, SubscriberUserID}): Accepted
\* is false.
FollowApiSaveFollow(s) ==
    /\ reqs[s].pc = "followapi_save"
    /\ LET follow == [id |-> FollowID(reqs[s].held.id, reqs[s].act.actor),
                      accepted |-> FALSE, publisher |-> "r2",
                      subscriber |-> reqs[s].held.id]
       IN IF SaveFollowOK(follow)
          THEN /\ follows' = follows \cup {follow}
               /\ RespondJSON(s, follow)
          ELSE /\ UNCHANGED follows
               /\ Respond(s, 500, "Internal server error")
    /\ UNCHANGED <<entities, followers, refs, messages, associations, nextCc,
                   accepts, svcCalls, started, workerVars, sideVars>>

\* Inbox, case Accept/Follow: GetFollowByID(objectID).
AcceptGetFollow(s) ==
    /\ reqs[s].pc = "accept_get"
    /\ LET found == GetFollowByID(reqs[s].act.id)
       IN IF found = {}
          THEN Respond(s, 404, "follow not found")
          ELSE \E f \in found :
                  Step(s, [reqs[s] EXCEPT !.pc = "accept_update", !.held = f])
    /\ UNCHANGED <<dbVars, started, workerVars, sideVars>>

\* Variant: the row saved is built from the Accept, not read from the table.
AcceptUpdateFollow_RowFromActivity(s) ==
    /\ reqs[s].pc = "accept_update"
    /\ follows' = UpdateFollow([id |-> reqs[s].act.id, accepted |-> TRUE,
                                publisher |-> "", subscriber |-> ""])
    /\ Respond(s, 200, "follow accepted")
    /\ UNCHANGED <<entities, followers, refs, messages, associations, nextCc,
                   accepts, svcCalls, started, workerVars, sideVars>>

\* apFollow.Accepted = true; UpdateFollow(apFollow).
AcceptUpdateFollow(s) ==
    /\ reqs[s].pc = "accept_update"
    /\ follows' = UpdateFollow([reqs[s].held EXCEPT !.accepted = TRUE])
    /\ Respond(s, 200, "follow accepted")
    /\ UNCHANGED <<entities, followers, refs, messages, associations, nextCc,
                   accepts, svcCalls, started, workerVars, sideVars>>

\* ------------------------------------------------ local API: UpdatePerson
\* Accept{object: {type, id}} POSTed by anyone, of a Follow or of an object
\* of another type, for the id of a row or of none.
AcceptAnyActs ==
    { [NoAct EXCEPT !.type = "Accept", !.inner = t, !.id = i] :
        t \in {"Follow", "Invite"},
        i \in {"fo1"} \cup { FollowID(e, x) : e \in LocalNames, x \in TargetIDs } }

\* DELETE /ap/api/follow/:id by the CC user <user> (the JWT issuer).
UnFollowActs ==
    { [NoAct EXCEPT !.type = "UnFollowApi", !.user = u, !.actor = t] :
        u \in {"CCalice", "CCcarol"}, t \in TargetIDs }

\* UnFollow: GetEntityByCCID(claims.Issuer).
UnFollowGetEntity(s) ==
    /\ reqs[s].pc = "unfollow_entity"
    /\ LET found == GetEntityByCCID(reqs[s].act.user)
       IN IF found = {}
          THEN Respond(s, 404, "entity not found")
          ELSE \E e \in found :
                  Step(s, [reqs[s] EXCEPT !.pc = "unfollow_resolve", !.held = e])
    /\ UNCHANGED <<dbVars, started, workerVars, sideVars>>

\* ResolveActor(targetID) and FetchPerson(targetActor).
UnFollowResolveActor(s) ==
    /\ reqs[s].pc = "unfollow_resolve"
    /\ \E ok \in BOOLEAN :
         IF ok THEN Goto(s, "unfollow_post")
         ELSE RespondUpstream(s, 404, "entity not found")
    /\ UNCHANGED <<dbVars, started, workerVars, sideVars>>

\* followID + "/undo", the id of the Undo.
UndoID(followID) == followID \o "/undo"

\* Variant: the error of PostToInbox is not looked at.
UnFollowPostToInbox_FailureIgnored(s) ==
    /\ reqs[s].pc = "unfollow_post"
    /\ \E ok \in BOOLEAN :
         /\ sent' = IF ok
                    THEN sent \cup {UndoID(FollowID(reqs[s].held.id, reqs[s].act.actor))}
                    ELSE sent
         /\ Step(s, [reqs[s] EXCEPT !.pc = "unfollow_remove", !.upFail = ~ok])
    /\ UNCHANGED <<dbVars, started, workerVars, persons, conv>>

\* PostToInbox(targetPerson.Inbox, Undo{Follow{id: followID}}).
UnFollowPostToInbox(s) ==
    /\ reqs[s].pc = "unfollow_post"
    /\ \E ok \in BOOLEAN :
         IF ok
         THEN /\ sent' = sent \cup
                    {UndoID(FollowID(reqs[s].held.id, reqs[s].act.actor))}
              /\ Goto(s, "unfollow_remove")
         ELSE /\ UNCHANGED sent
              /\ RespondUpstream(s, 500, "Internal server error")
    /\ UNCHANGED <<dbVars, started, workerVars, persons, conv>>

\* RemoveFollow(followID): First, which fails when there is no row, and
\* Delete.
UnFollowRemoveFollow(s) ==
    /\ reqs[s].pc = "unfollow_remove"
    /\ LET found == GetFollowByID(FollowID(reqs[s].held.id, reqs[s].act.actor))
       IN IF found = {}
          THEN /\ UNCHANGED follows
               /\ Respond(s, 500, "Internal server error")
          ELSE /\ follows' = follows \ found
               /\ \E f \in found : RespondJSON(s, f)
    /\ UNCHANGED <<entities, followers, refs, messages, associations, nextCc,
                   accepts, svcCalls, started, workerVars, sideVars>>

\* PUT /ap/api/person by the CC user <user> (the JWT issuer), with the
\* request body {id, name}.
UpdatePersonActs ==
    { [NoAct EXCEPT !.type = "UpdatePerson", !.user = u, !.id = i, !.name = n] :
        u \in {"CCalice", "CCbob", "CCcarol"}, i \in LocalNames,
        n \in {"name1", "name2"} }

\* db.Save on ApPerson: insert, or overwrite the row of that primary key.
UpsertPerson(person) == { p \in persons : p.id # person.id } \cup {person}

\* UpdatePerson: GetEntityByCCID(claims.Issuer); the row found has the ccid
\* asked for, so the test entity.CCID != ccid never answers 401.
UpdatePersonGetEntity(s) ==
    /\ reqs[s].pc = "person_entity"
    /\ LET found == GetEntityByCCID(reqs[s].act.user)
       IN IF found = {}
          THEN Respond(s, 404, "entity not found")
          ELSE \E e \in found :
                  IF e.ccid # reqs[s].act.user
                  THEN Respond(s, 401, "unauthorized")
                  ELSE Step(s, [reqs[s] EXCEPT !.pc = "person_upsert", !.held = e])
    /\ UNCHANGED <<dbVars, started, workerVars, sideVars>>

\* c.Bind(&person) and UpsertPerson(person): the row written is the one the
\* request body names.
UpdatePersonUpsert(s) ==
    /\ reqs[s].pc = "person_upsert"
    /\ LET person == [id |-> reqs[s].act.id, name |-> reqs[s].act.name]
       IN \E ok \in BOOLEAN :
            IF ok
            THEN /\ persons' = UpsertPerson(person)
                 /\ RespondJSON(s, person)
            ELSE /\ UNCHANGED persons
                 /\ RespondUpstream(s, 500, "Internal server error")
    /\ UNCHANGED <<dbVars, started, workerVars, conv, sent>>

\* len(content) > 4096.
MaxNoteLen == 4096

\* A Note as NoteToMessage reads it: the length of its content and its
\* attachments, each with a type and the length of its url.
AttachmentSeqs ==
    UNION { [1..n -> [type : {"Document", "Link"}, url : {0, MaxUrlLen}]] :
              n \in 0..MaxAttach }

NoteArgs ==
    { [id |-> "N1", content |-> c, attachment |-> as] :
        c \in (0..MaxSlack) \cup ((MaxNoteLen - MaxSlack)..(MaxNoteLen + MaxSlack)),
        as \in AttachmentSeqs }

\* content += "\n\n![image](" + attachment.URL + ")" for every Document:
\* eleven bytes, the url, one byte.
RECURSIVE AppendImages(_, _)
AppendImages(content, as) ==
    IF as = <<>> THEN content
    ELSE AppendImages(IF Head(as).type = "Document"
                      THEN content + 11 + Head(as).url + 1
                      ELSE content,
                      Tail(as))

\* Variant: a note of exactly the limit is refused too.
ContentError_LimitExcluded(content) ==
    IF content = 0 THEN "empty note"
    ELSE IF content >= MaxNoteLen THEN "note too long"
    ELSE ""

\* if len(content) == 0 ... if len(content) > 4096 ...
ContentError(content) ==
    IF content = 0 THEN "empty note"
    ELSE IF content > MaxNoteLen THEN "note too long"
    ELSE ""

\* NoteToMessage(object, person, destStreams): the two length tests, then
\* the signed object is posted to the message service, which may fail.
CallNoteToMessage ==
    /\ conv.fn = "NoteToMessage"
    /\ ~conv.returned
    /\ LET content == AppendImages(conv.arg.content, conv.arg.attachment)
       IN IF ContentError(content) # ""
          THEN /\ conv' = [conv EXCEPT !.returned = TRUE,
                                       !.err = ContentError(content)]
               /\ UNCHANGED <<messages, nextCc>>
          ELSE \E ok \in BOOLEAN :
                 IF ok
                 THEN /\ messages' = messages \cup
                            {[id |-> nextCc, author |-> "proxy",
                              origin |-> conv.arg.id]}
                      /\ nextCc' = nextCc + 1
                      /\ conv' = [conv EXCEPT !.returned = TRUE, !.posted = 1,
                                              !.out = [id |-> nextCc, body |-> content]]
                 ELSE /\ UNCHANGED <<messages, nextCc>>
                      /\ conv' = [conv EXCEPT !.returned = TRUE, !.posted = 1,
                                              !.err = "post message error"]
    /\ UNCHANGED <<entities, follows, followers, refs, associations, accepts,
                   svcCalls, reqs, started, answered, workerVars, persons, sent>>

\* --------------------------------------------------------- MessageToNote
\* Strings the conversion looks into are sequences of characters. A body is
\* put together from pieces: plain text, image markdown with and without alt
\* text, text in parentheses, a line break.
Pieces ==
    [ text    |-> <<"t">>,
      image1  |-> <<"!", "[", "]", "(", "1", ")">>,
      image2  |-> <<"!", "[", "a", "]", "(", "2", ")">>,
      paren   |-> <<"(", "x", ")">>,
      newline |-> <<"\n">> ]

PieceSeqs == UNION { [1..n -> DOMAIN Pieces] : n \in 0..MaxPieces }

RECURSIVE Flatten(_)
Flatten(ps) == IF ps = <<>> THEN <<>> ELSE Pieces[Head(ps)] \o Flatten(Tail(ps))

\* "." of the pattern: any character but a line break.
NoLineBreak(s, a, b) == \A x \in a..b : s[x] # "\n"

\* regexp `!\[.*\]\((.*)\)` tried at position i: where "](" can stand, and,
\* for such a place j, where the closing ")" can stand.
Closings(s, j) ==
    { k \in (j + 2)..Len(s) : s[k] = ")" /\ NoLineBreak(s, j + 2, k - 1) }

Middles(s, i) ==
    { j \in (i + 2)..(Len(s) - 1) :
        /\ s[j] = "]"
        /\ s[j + 1] = "("
        /\ NoLineBreak(s, i + 2, j - 1)
        /\ Closings(s, j) # {} }

MatchesAt(s, i) ==
    /\ i + 1 <= Len(s)
    /\ s[i] = "!"
    /\ s[i + 1] = "["
    /\ Middles(s, i) # {}

Greatest(S) == CHOOSE x \in S : \A y \in S : y <= x

\* FindAllStringSubmatch and ReplaceAllString: leftmost matches, each as
\* long as the greedy ".*" make it, none overlapping; the text outside the
\* matches and the first group of every match.
RECURSIVE Scan(_, _, _, _)
Scan(s, i, text, images) ==
    IF i > Len(s) THEN [text |-> text, images |-> images]
    ELSE IF MatchesAt(s, i)
    THEN LET j == Greatest(Middles(s, i))
             k == Greatest(Closings(s, j))
         IN Scan(s, k + 1, text, Append(images, SubSeq(s, j + 2, k - 1)))
    ELSE Scan(s, i + 1, Append(text, s[i]), images)

\* The CC message to convert: its schema, its author, the pieces of
\* body.body, and what body.rerouteMessageId / body.replyToMessageId names:
\* nothing, no message, a message whose meta is no object, a message of this
\* server (meta without apObjectRef), a message that came from a remote note.
Schemas == {"note", "reply", "reroute", "other"}
Sources == {"absent", "missing", "nometa", "local", "remote"}

MessageArgs ==
    { [id |-> "m1", schema |-> sch, author |-> a, body |-> b, source |-> src] :
        sch \in Schemas, a \in {"CCalice", "CCnobody"}, b \in PieceSeqs,
        src \in Sources }

NoNote == [type |-> "", id |-> "", content |-> <<>>, attachment |-> <<>>,
           object |-> "", quoteUrl |-> "", inReplyTo |-> ""]

\* ref: meta.apObjectRef of the source, or the note URL of this server.
ResolveRef(source) ==
    IF source = "remote" THEN "https://remote.example/note/9"
    ELSE "https://cc.example/ap/note/m0"

\* The error with which the source of a reply or reroute is refused.
SourceError(source) ==
    CASE source = "absent" -> "invalid body"
      [] source = "missing" -> "message not found"
      [] source = "nometa" -> "invalid meta"
      [] OTHER -> ""

Failed(err) == [conv EXCEPT !.returned = TRUE, !.err = err]
Returned(note) == [conv EXCEPT !.returned = TRUE, !.out = note]

\* MessageToNote(messageID): message.Get (which may fail), the author's
\* entity, the image pattern, and the branch of the schema.
CallMessageToNote ==
    /\ conv.fn = "MessageToNote"
    /\ ~conv.returned
    /\ LET msg == conv.arg
           scan == Scan(Flatten(msg.body), 1, <<>>, <<>>)
           text == scan.text
           base == [NoNote EXCEPT !.id = <<"https://cc.example/ap/note/", msg.id>>]
       IN \E ok \in BOOLEAN :
            conv' =
              IF ~ok THEN Failed("message not found")
              ELSE IF GetEntityByCCID(msg.author) = {} THEN Failed("entity not found")
              ELSE IF msg.schema = "note"
              THEN Returned([base EXCEPT !.type = "Note", !.content = text,
                                !.attachment = scan.images])
              ELSE IF msg.schema = "reply"
              THEN IF SourceError(msg.source) # ""
                   THEN Failed(SourceError(msg.source))
                   ELSE Returned([base EXCEPT !.type = "Note", !.content = text,
                                     !.inReplyTo = ResolveRef(msg.source)])
              ELSE IF msg.schema = "reroute"
              THEN IF SourceError(msg.source) # ""
                   THEN Failed(SourceError(msg.source))
                   ELSE IF text = <<>>
                   THEN Returned([base EXCEPT !.type = "Announce",
                                     !.object = ResolveRef(msg.source)])
                   ELSE Returned([base EXCEPT !.type = "Note", !.content = text,
                                     !.quoteUrl = ResolveRef(msg.source)])
              ELSE Failed("invalid schema")
    /\ UNCHANGED <<dbVars, reqs, started, answered, workerVars, persons, sent>>

\* ------------------------------------------------------------- WebFinger
\* The resource parameter, as a sequence of the words and separators it is
\* written with.
ResourceWords == {"acct", ":", "@", "alice", "carol", FQDN, OtherHost}
Resources == UNION { [1..n -> ResourceWords] : n \in 0..MaxResource }

\* strings.Split(s, sep): the parts of s between the separators.
RECURSIVE Split(_, _, _)
Split(s, sep, part) ==
    IF s = <<>> THEN <<part>>
    ELSE IF Head(s) = sep THEN <<part>> \o Split(Tail(s), sep, <<>>)
    ELSE Split(Tail(s), sep, Append(part, Head(s)))

\* Variant: the error of the lookup is not looked at.
EntityNamed_ErrorIgnored(words) == entities

\* The entity whose id is the string the words spell.
EntityNamed(words) ==
    IF Len(words) = 1 THEN GetEntityByID(words[1]) ELSE {}

NoAnswer == [status |-> 0, body |-> "", links |-> <<>>]

\* WebFinger(c): the resource is split at ":" and at "@", the domain is
\* compared with the FQDN, and the entity is looked up.
CallWebFinger ==
    /\ conv.fn = "WebFinger"
    /\ ~conv.returned
    /\ LET resource == conv.arg
           byColon == Split(resource, ":", <<>>)
           byAt == Split(byColon[2], "@", <<>>)
           bad == [NoAnswer EXCEPT !.status = 400, !.body = "Invalid resource"]
       IN conv' = Returned(
            IF Len(byColon) # 2 THEN bad
            ELSE IF byColon[1] # <<"acct">> THEN bad
            ELSE IF Len(byAt) # 2 THEN bad
            ELSE IF byAt[2] # <<FQDN>> THEN bad
            ELSE IF EntityNamed(byAt[1]) = {}
            THEN [NoAnswer EXCEPT !.status = 404, !.body = "entity not found"]
            ELSE [NoAnswer EXCEPT !.status = 200,
                     !.links = << [rel |-> "self",
                                   href |-> <<"https://", FQDN, "/ap/acct/">>
                                               \o byAt[1]] >>])
    /\ UNCHANGED <<dbVars, reqs, started, answered, workerVars, persons, sent>>

\* ------------------------------------------- Inbox, case Like: the schema
\* The names and icon urls of the tags of a Like, and its tag lists: nil when
\* the JSON has no "tag" (or null), a list of Tag otherwise.
TagNames == {<<>>, <<"a">>, <<":", "a", ":">>, <<"a", ":">>}
TagIcons == {"icon1", "icon2"}
Tags == [name : TagNames, icon : TagIcons]
TagLists ==
    {[nil |-> TRUE, list |-> <<>>]} \cup
    { [nil |-> FALSE, list |-> l] :
        l \in UNION { [1..n -> Tags] : n \in 0..MaxTags } }

\* An index expression x[0] of Go: a run-time panic when x has no element.
IndexPanics(x) == Len(x) = 0

\* (object.Tag == nil) || (object.Tag[0].Name[0] != ':') and the two
\* association.SignedObject literals. The panic of an index out of range is
\* recovered by the Recover middleware, which answers 500.
LikeSchema(tag) ==
    IF tag.nil THEN [schema |-> "like"]
    ELSE IF IndexPanics(tag.list) THEN [schema |-> "panic"]
    ELSE IF IndexPanics(tag.list[1].name) THEN [schema |-> "panic"]
    ELSE IF tag.list[1].name[1] # ":" THEN [schema |-> "like"]
    ELSE [schema |-> "emoji", shortcode |-> tag.list[1].name,
          imageUrl |-> tag.list[1].icon, variant |-> tag.list[1].icon]

CallLikeSchema ==
    /\ conv.fn = "LikeSchema"
    /\ ~conv.returned
    /\ conv' = [conv EXCEPT !.returned = TRUE, !.out = LikeSchema(conv.arg)]
    /\ UNCHANGED <<dbVars, reqs, started, answered, workerVars, persons, sent>>

\* ------------------------------------------------- StartMessageWorker
WorkerIDs == 1..MaxWorkers
EventIDs == 1..MaxEvents
Inboxes == { InboxOf(a) : a \in Actors }

\* The payloads of a pub/sub message: no JSON; an Event whose body is
\* absent; an Event whose body is a string, a number or an array; an Event
\* whose body is an object with no string "id", with no string "author", or
\* with both.
Payloads == {"malformed", "nobody", "scalar", "noid", "noauthor", "message"}

NoEvent == [id |-> 0, author |-> "", payload |-> ""]
\* taken: the ids of the events the goroutine received, in order; handled:
\* the events it finished with, in order, each with whether it was POSTed.
NoWorker == [state |-> "free", fid |-> "", inbox |-> <<>>, publisher |-> "",
             owner |-> "", home |-> "", cancelled |-> FALSE, queue |-> <<>>,
             msg |-> NoEvent, taken |-> <<>>, handled |-> <<>>]

JobIDs(jobs) == { j.id : j \in jobs }

\* No goroutine holds this place.
Vacant(k) == workers[k].state = "free"
FirstVacant ==
    CHOOSE k \in WorkerIDs : Vacant(k) /\ \A j \in WorkerIDs : Vacant(j) => k <= j

\* <-ticker10.C and GetAllFollowers: on an error jobs stays nil. table is
\* the ApFollower table as it is at this tick.
TickRead ==
    /\ sup.pc = "wait"
    /\ \E ok \in BOOLEAN :
         sup' = [pc |-> "start", jobs |-> IF ok THEN followers ELSE {},
                 table |-> followers]
    /\ UNCHANGED <<dbVars, reqs, started, answered, registered, workers,
                   published, delivered, sideVars>>

\* One round of the loop over jobs, for a job with no entry in the workers
\* map: the entry is made first, then the publisher is looked up, and the
\* goroutine is started only when the publisher has a home stream.
TickStartWorker ==
    /\ sup.pc = "start"
    /\ \E job \in sup.jobs :
         /\ job.id \notin registered
         /\ registered' = registered \cup {job.id}
         /\ LET found == GetEntityByID(job.publisher)
                home == IF found = {} THEN ""
                        ELSE (CHOOSE e \in found : TRUE).home
                owner == IF found = {} THEN ""
                         ELSE (CHOOSE e \in found : TRUE).ccid
            IN IF home = ""
               THEN UNCHANGED workers
               ELSE /\ \E k \in WorkerIDs : Vacant(k)
                    /\ workers' = [workers EXCEPT ![FirstVacant] =
                          [NoWorker EXCEPT !.state = "recv", !.fid = job.id,
                              !.inbox = job.inbox, !.publisher = job.publisher,
                              !.owner = owner, !.home = home]]
    /\ UNCHANGED <<dbVars, reqs, started, answered, sup, published, delivered,
                   sideVars>>

\* The loop over the workers map: every entry whose key is no job id is
\* cancelled and deleted.
TickCancel ==
    /\ sup.pc = "start"
    /\ JobIDs(sup.jobs) \subseteq registered
    /\ workers' = [k \in WorkerIDs |->
                     IF /\ workers[k].state \in {"recv", "got"}
                        /\ workers[k].fid \in registered \ JobIDs(sup.jobs)
                     THEN [workers[k] EXCEPT !.cancelled = TRUE]
                     ELSE workers[k]]
    /\ registered' = registered \cap JobIDs(sup.jobs)
    /\ sup' = [sup EXCEPT !.pc = "wait"]
    /\ UNCHANGED <<dbVars, reqs, started, answered, published, delivered,
                   sideVars>>

\* A message is published on the channel of alice's home stream: every
\* subscription of that channel gets it.
PublishPayload(e, author, payload) ==
    /\ e \notin published
    /\ published' = published \cup {e}
    /\ workers' = [k \in WorkerIDs |->
                     IF /\ workers[k].state \in {"recv", "got"}
                        /\ ~workers[k].cancelled
                        /\ workers[k].home = "home_alice"
                     THEN [workers[k] EXCEPT
                              !.queue = Append(@, [id |-> e, author |-> author,
                                                   payload |-> payload])]
                     ELSE workers[k]]
    /\ UNCHANGED <<dbVars, reqs, started, answered, sup, registered, delivered, sideVars>>

\* The CC stream service publishes the event of a message.
Publish(e, author) == PublishPayload(e, author, "message")

\* select: ctx.Done() wins when the context is cancelled.
WorkerExit(k) ==
    /\ workers[k].state = "recv"
    /\ workers[k].cancelled
    /\ workers' = [workers EXCEPT ![k] = NoWorker]
    /\ UNCHANGED <<dbVars, reqs, started, answered, sup, registered, published,
                   delivered, sideVars>>

\* Variant: a receive that does not test the context.
WorkerReceive_ContextIgnored(k) ==
    /\ workers[k].state = "recv"
    /\ workers[k].queue # <<>>
    /\ workers' = [workers EXCEPT ![k].state = "got",
                                  ![k].msg = Head(workers[k].queue),
                                  ![k].queue = Tail(workers[k].queue),
                                  ![k].taken = Append(@, Head(workers[k].queue).id)]
    /\ UNCHANGED <<dbVars, reqs, started, answered, sup, registered, published,
                   delivered, sideVars>>

\* Variant: the loop body is handed to a goroutine of its own, so the next
\* event is received while the last one is still being handled.
WorkerReceive_WhileHandling(k) ==
    /\ workers[k].state \in {"recv", "got"}
    /\ ~workers[k].cancelled
    /\ workers[k].queue # <<>>
    /\ workers' = [workers EXCEPT ![k].state = "got",
                                  ![k].msg = Head(workers[k].queue),
                                  ![k].queue = Tail(workers[k].queue),
                                  ![k].taken = Append(@, Head(workers[k].queue).id)]
    /\ UNCHANGED <<dbVars, reqs, started, answered, sup, registered, published,
                   delivered, sideVars>>

\* default: pubsub.ReceiveMessage, and the test of ctx.Err() after it.
WorkerReceive(k) ==
    /\ workers[k].state = "recv"
    /\ ~workers[k].cancelled
    /\ workers[k].queue # <<>>
    /\ workers' = [workers EXCEPT ![k].state = "got",
                                  ![k].msg = Head(workers[k].queue),
                                  ![k].queue = Tail(workers[k].queue),
                                  ![k].taken = Append(@, Head(workers[k].queue).id)]
    /\ UNCHANGED <<dbVars, reqs, started, answered, sup, registered, published,
                   delivered, sideVars>>

\* Variant: the author of the event is not compared with the owner.
WorkerHandle_AuthorNotTested(k) ==
    /\ workers[k].state = "got"
    /\ workers[k].msg.payload \notin {"nobody", "scalar"}
    /\ \E ok \in BOOLEAN :
         LET posted == workers[k].msg.payload = "message" /\ ok IN
         /\ IF posted
            THEN delivered' = [delivered EXCEPT
                    ![<<workers[k].msg.id, workers[k].inbox>>] = @ + 1]
            ELSE UNCHANGED delivered
         /\ workers' = [workers EXCEPT
                ![k].state = "recv", ![k].msg = NoEvent,
                ![k].handled = Append(@, [id |-> workers[k].msg.id,
                                          posted |-> posted])]
    /\ UNCHANGED <<dbVars, reqs, started, answered, sup, registered, published,
                   sideVars>>

\* The rest of the loop body: the author test, MessageToNote, PostToInbox.
\* PostToInbox builds its request without the context, so a cancellation
\* that comes after the receive does not stop the POST.
\* json.Unmarshal fails on a payload that is no JSON (continue); the
\* one-value assertion streamEvent.Body.(map[string]interface{}) panics on a
\* body that is absent or no object, and the goroutine recovers nowhere, so
\* the process ends; the two-value assertions of "id" and "author" fail with
\* ok = false (continue).
WorkerHandle(k) ==
    /\ workers[k].state = "got"
    /\ IF workers[k].msg.payload \in {"nobody", "scalar"}
       THEN /\ workers' = [j \in WorkerIDs |->
                             IF workers[j].state \in {"recv", "got"}
                             THEN [workers[j] EXCEPT !.state = "panic"]
                             ELSE workers[j]]
            /\ sup' = [sup EXCEPT !.pc = "panic"]
            /\ UNCHANGED delivered
       ELSE /\ \E ok \in BOOLEAN :
                 LET posted == /\ workers[k].msg.payload = "message"
                               /\ workers[k].msg.author = workers[k].owner
                               /\ ok IN
                 /\ IF posted
                    THEN delivered' = [delivered EXCEPT
                            ![<<workers[k].msg.id, workers[k].inbox>>] = @ + 1]
                    ELSE UNCHANGED delivered
                 /\ workers' = [workers EXCEPT
                        ![k].state = "recv", ![k].msg = NoEvent,
                        ![k].handled = Append(@, [id |-> workers[k].msg.id,
                                                  posted |-> posted])]
            /\ UNCHANGED sup
    /\ UNCHANGED <<dbVars, reqs, started, answered, registered, published, sideVars>>

\* --------------------------------------------- StartAssociationWorker
\* A value of a JSON object under a key: no such key, a number, a string.
NoValue == [kind |-> "absent", s |-> ""]
Number == [kind |-> "number", s |-> ""]
String(s) == [kind |-> "string", s |-> s]

\* v.(string) in its two-value form.
AsString(v) == [ok |-> v.kind = "string", s |-> IF v.kind = "string" THEN v.s ELSE ""]

\* meta of the target message: no object at all, or the two keys.
RemoteRefs == {"https://remote.example/note/9"}
RemoteInboxes == {"https://remote.example/inbox", "https://other.example/inbox"}
NoMeta == [isMap |-> FALSE, apObjectRef |-> NoValue, apPublisherInbox |-> NoValue]
Metas ==
    {NoMeta} \cup
    { [isMap |-> TRUE, apObjectRef |-> r, apPublisherInbox |-> i] :
        r \in {NoValue, Number} \cup { String(x) : x \in RemoteRefs },
        i \in {NoValue, Number} \cup { String(x) : x \in RemoteInboxes } }

\* msgMeta[key] of msgMeta, ok := msgObject.Meta.(map[string]interface{}):
\* a nil map answers every key with nil.
MetaKey(meta, key) == IF meta.isMap THEN meta[key] ELSE NoValue

\* One event of the notification stream. event: its body is no object, has
\* no id, names no association, names an association of another target type,
\* or names an association of a message. emoji: body.shortcode and
\* body.imageUrl of the association. reply: what body.messageId names (no
\* key, no message, a message whose body is no object, whose body.body is
\* empty, whose body.body is a text).
AssocSchemas == {"like", "emoji", "reply", "reroute", "other"}
AssocEvents ==
    { [id |-> "a1", event |-> ev, author |-> au, bodyIsMap |-> bm,
       schema |-> sch, emoji |-> em, targetFound |-> tf, meta |-> me,
       reply |-> rp, postOK |-> po] :
        ev \in {"scalar", "noid", "noassoc", "character", "message"},
        au \in {"CCalice", "proxy"}, bm \in BOOLEAN, sch \in AssocSchemas,
        em \in {"none", "shortcode", "full"}, tf \in BOOLEAN, me \in Metas,
        rp \in {"noid", "missing", "nobody", "empty", "text"},
        po \in BOOLEAN }

\* The activity handed to PostToInbox, and its destination.
Outbound(dest, type, id, actor, object, content) ==
    [dest |-> dest, type |-> type, id |-> id, actor |-> actor,
     object |-> object, content |-> content]

\* The activity of a like, a reply or a reroute (lines 240-406), or none.
AssocActivity(ev, actor, ref, dest) ==
    IF ev.schema \in {"like", "emoji"}
    THEN <<Outbound(dest, "Like", "https://cc.example/ap/likes/" \o ev.id, actor,
              ref, IF ev.emoji = "none" THEN "star" ELSE ":shortcode:")>>
    ELSE IF ev.schema = "reply"
    THEN IF ev.reply = "text"
         THEN <<Outbound(dest, "Create",
                   "https://cc.example/ap/note/m2/activity", actor, ref, "text")>>
         ELSE <<>>
    ELSE IF ev.schema = "reroute"
    THEN IF ev.reply \in {"noid", "missing", "nobody"} THEN <<>>
         ELSE IF ev.reply = "empty"
         THEN <<Outbound(dest, "Announce", "https://cc.example/ap/note/m2",
                   actor, ref, "")>>
         ELSE <<Outbound(dest, "Create",
                   "https://cc.example/ap/note/m2/activity", actor, ref, "text")>>
    ELSE <<>>

\* Variant: the meta keys are not asked for; the ids of this server are used.
AssocTarget_MetaNotRequired(meta) ==
    [ok |-> TRUE,
     ref |-> IF AsString(MetaKey(meta, "apObjectRef")).ok
             THEN AsString(MetaKey(meta, "apObjectRef")).s
             ELSE "https://cc.example/ap/note/m0",
     dest |-> IF AsString(MetaKey(meta, "apPublisherInbox")).ok
              THEN AsString(MetaKey(meta, "apPublisherInbox")).s
              ELSE "https://remote.example/inbox"]

\* ref and dest of the target message (lines 228-238).
AssocTarget(meta) ==
    LET ref == AsString(MetaKey(meta, "apObjectRef"))
        dest == AsString(MetaKey(meta, "apPublisherInbox"))
    IN [ok |-> ref.ok /\ dest.ok, ref |-> ref.s, dest |-> dest.s]

\* One round of the loop of StartAssociationWorker: what it POSTs, and
\* whether it goes on with the next event ("" or the reason of the skip) or
\* the goroutine panics.
CallAssociation ==
    /\ conv.fn = "Association"
    /\ ~conv.returned
    /\ LET ev == conv.arg
           author == GetEntityByCCID(ev.author)
           target == AssocTarget(ev.meta)
           Skip(why) == [conv EXCEPT !.returned = TRUE, !.err = why]
       IN conv' =
            IF ev.event = "scalar" THEN Skip("panic")
            ELSE IF ev.event = "noid" THEN Skip("body read id failed")
            ELSE IF ev.event \in {"noassoc", "character"} THEN Skip("not a message")
            ELSE IF author = {} THEN Skip("get ass author entity failed")
            ELSE IF ~ev.bodyIsMap THEN Skip("parse association body failed")
            ELSE IF ~ev.targetFound THEN Skip("message not found")
            ELSE IF ~target.ok THEN Skip("target Message is not activitypub message")
            ELSE LET actor == "https://cc.example/ap/acct/" \o
                                  (CHOOSE e \in author : TRUE).id
                     act == AssocActivity(ev, actor, target.ref, target.dest)
                 IN IF act = <<>> THEN Skip("nothing to send")
                    ELSE [conv EXCEPT !.returned = TRUE,
                             !.out = IF ev.postOK THEN act ELSE <<>>,
                             !.err = IF ev.postOK THEN "" ELSE "post failed",
                             !.posted = 1]
    /\ UNCHANGED <<dbVars, reqs, started, answered, workerVars, persons, sent>>

\* ----------------------------------------------------------- ResolveActor
\* The links of the WebFinger response of the remote server.
LinkRels == {"self", "http://webfinger.net/rel/profile-page"}
LinkHrefs == {"", "https://remote.example/users/r1", "https://remote.example/@r1"}
WebFingerLinks == [rel : LinkRels, href : LinkHrefs]
LinkLists == UNION { [1..n -> WebFingerLinks] : n \in 0..MaxLinks }
NoLink == [rel |-> "", href |-> ""]

\* Variant: the loop stops at the first link whose Rel is "self".
RECURSIVE SelfLink_First(_, _)
SelfLink_First(links, aplink) ==
    IF links = <<>> THEN aplink
    ELSE IF Head(links).rel = "self" THEN Head(links)
    ELSE SelfLink_First(Tail(links), aplink)

\* for _, link := range webfinger.Links { if link.Rel == "self" { aplink =
\* link } }, started with the zero link.
RECURSIVE SelfLink(_, _)
SelfLink(links, aplink) ==
    IF links = <<>> THEN aplink
    ELSE SelfLink(Tail(links),
                  IF Head(links).rel = "self" THEN Head(links) ELSE aplink)

\* ResolveActor(id) once the WebFinger response is decoded.
CallResolveActor ==
    /\ conv.fn = "ResolveActor"
    /\ ~conv.returned
    /\ LET aplink == SelfLink(conv.arg, NoLink)
       IN conv' = IF aplink.href = ""
                  THEN [conv EXCEPT !.returned = TRUE, !.out = "",
                                    !.err = "no ap link found"]
                  ELSE [conv EXCEPT !.returned = TRUE, !.out = aplink.href]
    /\ UNCHANGED <<dbVars, reqs, started, answered, workerVars, persons, sent>>

\* ----------------------------------------- the outbound signed requests
\* A call of PostToInbox, FetchPerson or FetchNote: the privatekey field of
\* the executing entity (a PEM block, the empty string, a PEM block that is
\* no PKCS1 key), whether the memcache holds the actor, whether NewSigner and
\* SignRequest succeed, whether the remote server is reached and the status
\* it answers with.
ClientOps == {"PostToInbox", "FetchPerson", "FetchNote"}
BadPEM == <<"RSA PRIVATE KEY", "">>
ClientCalls ==
    [op : ClientOps, key : {NoKey, BadPEM, PrivKeyPEM("alice")},
     cached : BOOLEAN, signer : BOOLEAN, sign : BOOLEAN, reached : BOOLEAN,
     status : {200, 404}]

\* Repository.LoadKey: pem.Decode and x509.ParsePKCS1PrivateKey.
LoadKey(key) ==
    IF key = NoKey THEN "failed to parse PEM block containing the key"
    ELSE IF key = BadPEM THEN "failed to parse DER encoded private key"
    ELSE ""

\* err = signer.SignRequest(...) is followed by resp, err := client.Do(req):
\* the error of SignRequest is overwritten before it is read.
SignRequest(c) == ""

\* What the call sent to the remote server, if anything, and its error.
NoRequest == [sent |-> FALSE, signed |-> FALSE]
CallClient ==
    /\ conv.fn = "Client"
    /\ ~conv.returned
    /\ LET c == conv.arg
           Fail(e) == [conv EXCEPT !.returned = TRUE, !.out = NoRequest, !.err = e]
           request == [sent |-> TRUE, signed |-> c.sign]
       IN conv' =
            IF c.op = "FetchPerson" /\ c.cached
            THEN [conv EXCEPT !.returned = TRUE, !.out = NoRequest]
            ELSE IF LoadKey(c.key) # "" THEN Fail(LoadKey(c.key))
            ELSE IF ~c.signer THEN Fail("new signer failed")
            ELSE IF SignRequest(c) # "" THEN Fail(SignRequest(c))
            ELSE IF ~c.reached
            THEN [conv EXCEPT !.returned = TRUE, !.out = request,
                              !.err = "request failed"]
            ELSE IF c.op = "PostToInbox" /\ c.status >= 400
            THEN [conv EXCEPT !.returned = TRUE, !.out = request,
                              !.err = "error posting to inbox"]
            ELSE [conv EXCEPT !.returned = TRUE, !.out = request]
    /\ UNCHANGED <<dbVars, reqs, started, answered, workerVars, persons, sent>>

\* -------------------------------------------------------------------- Init
InitEntities ==
    { [id |-> "alice", ccid |-> "CCalice", home |-> "home_alice",
       followStream |-> "fs_alice", privatekey |-> PrivKeyPEM("alice")],
      [id |-> "bob", ccid |-> "CCbob", home |-> "home_bob",
       followStream |-> "fs_bob", privatekey |-> PrivKeyPEM("bob")] }

\* Every table but ApFollower, and the process, as they are at the start.
InitOthers ==
    /\ entities = InitEntities
    /\ follows = {[id |-> "fo1", accepted |-> TRUE, publisher |-> "r1",
                     subscriber |-> "alice"]}
    /\ refs = {}
    /\ messages = {[id |-> LocalNote, author |-> "CCalice", origin |-> ""]}
    /\ associations = {}
    /\ nextCc = LocalNote + 1
    /\ accepts = [i \in {InboxOf(a) : a \in Actors} |-> 0]
    /\ svcCalls = 0
    /\ reqs = [s \in Slots |-> Idle]
    /\ started = 0
    /\ answered = {}
    /\ sup = [pc |-> "wait", jobs |-> {}, table |-> {}]
    /\ registered = {}
    /\ workers = [k \in WorkerIDs |-> NoWorker]
    /\ published = {}
    /\ delivered = [x \in EventIDs \X Inboxes |-> 0]
    /\ persons = {}
    /\ sent = {}

InitTables ==
    /\ InitOthers
    /\ followers = {}

Init ==
    /\ InitTables
    /\ conv = NoConv

\* ---------------------------------------------- the follow state machine
FollowSteps(s) ==
    \/ FollowGetEntity(s)
    \/ FollowFetchPerson(s)
    \/ FollowPostAccept(s)
    \/ FollowCheck(s)
    \/ FollowSave(s)
    \/ UndoFollowCheck(s)
    \/ UndoFollowRemove(s)

\* Parallel deliveries of Follow and Undo{Follow}.
NextFollow ==
    \/ \E s \in Slots, a \in FollowActs \cup UndoFollowActs : Start(s, a)
    \/ \E s \in Slots : FollowSteps(s)

SpecFollow == Init /\ [][NextFollow]_vars

\* Deliveries of Follow and Undo{Follow} whose HTTP request carries a valid
\* Signature header, or none or a wrong one.
SignatureActs ==
    { [a EXCEPT !.signed = b] :
        a \in FollowActs \cup UndoFollowActs, b \in BOOLEAN }

NextSignature ==
    \/ \E s \in Slots, a \in SignatureActs : StartAlone(s, a)
    \/ \E s \in Slots : FollowSteps(s)

SpecSignature == Init /\ [][NextSignature]_vars

\* Deliveries of Follow and Undo{Follow} one after the other.
NextFollowSeq ==
    \/ \E s \in Slots, a \in FollowActs \cup UndoFollowActs :
          StartAlone(s, a)
    \/ \E s \in Slots : FollowSteps(s)

SpecFollowSeq == Init /\ [][NextFollowSeq]_vars

\* --------------------------------------- the cross-referenced activities
LikeSteps(s) ==
    \/ LikeGetTarget(s)
    \/ LikeClaim(s)
    \/ LikeGetEntity(s)
    \/ LikeFetchPerson(s)
    \/ LikePostAssociation(s)
    \/ LikeFill(s)

CreateSteps(s) ==
    \/ CreateLookup(s)
    \/ CreateClaim(s)
    \/ CreateListFollows(s)
    \/ CreateFetchPerson(s)
    \/ CreateNoteToMessage(s)
    \/ CreateFill(s)
    \/ Default(s)

RemoveSteps(s) ==
    \/ DeleteLookup(s)
    \/ DeleteMessage(s)
    \/ DeleteRef(s)
    \/ UndoLikeLookup(s)
    \/ UndoLikeDeleteAssociation(s)
    \/ UndoLikeDeleteRef(s)

ImportSteps(s) ==
    \/ ImportGetEntity(s)
    \/ ImportLookup(s)
    \/ ImportGetExisting(s)
    \/ ImportDropReference(s)
    \/ ImportFetch(s)
    \/ ImportNoteToMessage(s)
    \/ ImportSaveReference(s)

ObjectActs == LikeActs \cup CreateActs \cup DeleteActs \cup UndoLikeActs

\* Parallel deliveries of Like, Create, Delete and Undo{Like}.
NextInbox ==
    \/ \E s \in Slots, a \in ObjectActs : Start(s, a)
    \/ \E s \in Slots : LikeSteps(s)
    \/ \E s \in Slots : CreateSteps(s)
    \/ \E s \in Slots : RemoveSteps(s)

SpecInbox == Init /\ [][NextInbox]_vars

\* Parallel deliveries of the activities above and of activities that the
\* inbox has no case for.
NextUnhandled ==
    \/ \E s \in Slots, a \in ObjectActs \cup UnhandledActs : Start(s, a)
    \/ \E s \in Slots : LikeSteps(s)
    \/ \E s \in Slots : CreateSteps(s)
    \/ \E s \in Slots : RemoveSteps(s)

SpecUnhandled == Init /\ [][NextUnhandled]_vars

\* The same deliveries, and ImportNote calls, one after the other.
NextSeq ==
    \/ \E s \in Slots, a \in ObjectActs \cup ImportActs : StartAlone(s, a)
    \/ \E s \in Slots : LikeSteps(s)
    \/ \E s \in Slots : CreateSteps(s)
    \/ \E s \in Slots : RemoveSteps(s)
    \/ \E s \in Slots : ImportSteps(s)

SpecSeq == Init /\ [][NextSeq]_vars

\* The same deliveries and ImportNote calls in parallel.
Next ==
    \/ \E s \in Slots, a \in ObjectActs \cup ImportActs : Start(s, a)
    \/ \E s \in Slots : LikeSteps(s)
    \/ \E s \in Slots : CreateSteps(s)
    \/ \E s \in Slots : RemoveSteps(s)
    \/ \E s \in Slots : ImportSteps(s)

Spec == Init /\ [][Next]_vars

\* ------------------------------------------------------ the fan-out fleet
\* Follow and Undo{Follow} of r1 for alice, delivered one after the other.
FleetActs == { a \in FollowActs \cup UndoFollowActs :
                 a.host = FQDN /\ a.path \in {"", a.user} }

NextWorker ==
    \/ \E a \in FleetActs : StartAlone("s1", a)
    \/ FollowSteps("s1")
    \/ TickRead
    \/ TickStartWorker
    \/ TickCancel
    \/ \E e \in EventIDs, c \in {"CCalice", "CCbob"} : Publish(e, c)
    \/ \E k \in WorkerIDs : WorkerExit(k)
    \/ \E k \in WorkerIDs : WorkerReceive(k)
    \/ \E k \in WorkerIDs : WorkerHandle(k)

SpecWorker == Init /\ [][NextWorker]_vars

\* ---------------------------------------------------- the entity API
EntitySteps(s) ==
    \/ CreateEntityLookup(s)
    \/ CreateEntityUpdate(s)
    \/ CreateEntityCreate(s)
    \/ GetEntityIDLookup(s)

\* Parallel calls of CreateEntity and GetEntityID.
NextEntity ==
    \/ \E s \in Slots, a \in CreateEntityActs \cup GetEntityIDActs : Start(s, a)
    \/ \E s \in Slots : EntitySteps(s)

SpecEntity == Init /\ [][NextEntity]_vars

\* ------------------------------------------------- NoteToMessage alone
InitNoteToMessage ==
    /\ InitTables
    /\ \E n \in NoteArgs : conv = [NoConv EXCEPT !.fn = "NoteToMessage", !.arg = n]

NextNoteToMessage == CallNoteToMessage

SpecNoteToMessage == InitNoteToMessage /\ [][NextNoteToMessage]_vars

\* ------------------------------------------------- MessageToNote alone
InitMessageToNote ==
    /\ InitTables
    /\ \E m \in MessageArgs : conv = [NoConv EXCEPT !.fn = "MessageToNote", !.arg = m]

NextMessageToNote == CallMessageToNote

SpecMessageToNote == InitMessageToNote /\ [][NextMessageToNote]_vars

\* ----------------------------------------------------- WebFinger alone
InitWebFinger ==
    /\ InitTables
    /\ \E r \in Resources : conv = [NoConv EXCEPT !.fn = "WebFinger", !.arg = r]

NextWebFinger == CallWebFinger

SpecWebFinger == InitWebFinger /\ [][NextWebFinger]_vars

\* A start on a database that holds the row of a follower of alice, with
\* any payload published on the channel of her home stream.
InitPayload ==
    /\ InitOthers
    /\ followers = {[id |-> "f1", subscriber |-> "r1", publisher |-> "alice",
                     inbox |-> InboxOf("r1")]}
    /\ conv = NoConv

NextPayload ==
    \/ TickRead
    \/ TickStartWorker
    \/ TickCancel
    \/ \E e \in EventIDs, c \in {"CCalice", "CCbob"}, p \in Payloads :
          PublishPayload(e, c, p)
    \/ \E k \in WorkerIDs : WorkerExit(k)
    \/ \E k \in WorkerIDs : WorkerReceive(k)
    \/ \E k \in WorkerIDs : WorkerHandle(k)

SpecPayload == InitPayload /\ [][NextPayload]_vars

\* ----------------------------------------------- the outbound follow
FollowApiSteps(s) ==
    \/ FollowApiGetEntity(s)
    \/ FollowApiResolveActor(s)
    \/ FollowApiFetchPerson(s)
    \/ FollowApiPostToInbox(s)
    \/ FollowApiSaveFollow(s)
    \/ AcceptGetFollow(s)
    \/ AcceptUpdateFollow(s)

\* Follow API calls in parallel with the Accept deliveries of the remote.
NextFollowApi ==
    \/ \E s \in Slots, a \in FollowApiActs : Start(s, a)
    \/ \E s \in Slots, a \in AcceptActs : StartAccept(s, a)
    \/ \E s \in Slots : FollowApiSteps(s)

SpecFollowApi == Init /\ [][NextFollowApi]_vars

\* ------------------------------------------------- the person overlays
UnFollowSteps(s) ==
    \/ UnFollowGetEntity(s)
    \/ UnFollowResolveActor(s)
    \/ UnFollowPostToInbox(s)
    \/ UnFollowRemoveFollow(s)

\* Follow and UnFollow API calls and deliveries of Accept, one after the
\* other.
NextAccept ==
    \/ \E s \in Slots, a \in FollowApiActs \cup UnFollowActs \cup AcceptAnyActs :
          StartAlone(s, a)
    \/ \E s \in Slots : FollowApiSteps(s)
    \/ \E s \in Slots : UnFollowSteps(s)
    \/ \E s \in Slots : Default(s)

SpecAccept == Init /\ [][NextAccept]_vars

PersonSteps(s) ==
    \/ UpdatePersonGetEntity(s)
    \/ UpdatePersonUpsert(s)

NextPerson ==
    \/ \E s \in Slots, a \in UpdatePersonActs : Start(s, a)
    \/ \E s \in Slots : PersonSteps(s)

SpecPerson == Init /\ [][NextPerson]_vars

InitLikeSchema ==
    /\ InitTables
    /\ \E t \in TagLists : conv = [NoConv EXCEPT !.fn = "LikeSchema", !.arg = t]

NextLikeSchema == CallLikeSchema

SpecLikeSchema == InitLikeSchema /\ [][NextLikeSchema]_vars

\* ------------------------------------------- the association worker alone
InitAssociation ==
    /\ InitTables
    /\ \E ev \in AssocEvents :
         conv = [NoConv EXCEPT !.fn = "Association", !.arg = ev]

NextAssociation == CallAssociation

SpecAssociation == InitAssociation /\ [][NextAssociation]_vars

\* --------------------------------------------------- ResolveActor alone
InitResolveActor ==
    /\ InitTables
    /\ \E links \in LinkLists :
         conv = [NoConv EXCEPT !.fn = "ResolveActor", !.arg = links]

NextResolveActor == CallResolveActor

SpecResolveActor == InitResolveActor /\ [][NextResolveActor]_vars

\* ------------------------------------------- the outbound requests alone
InitClient ==
    /\ InitTables
    /\ \E c \in ClientCalls : conv = [NoConv EXCEPT !.fn = "Client", !.arg = c]

NextClient == CallClient

SpecClient == InitClient /\ [][NextClient]_vars

\* ------------------------------------------- the way back out to AP
\* The signer of every object the bridge makes from an inbound activity.
ProxyCCID == "proxy"

\* Events of associations of the like and emoji schemas on a message that is
\* found, by alice and by the proxy.
EchoEvents ==
    { ev \in AssocEvents :
        /\ ev.event = "message" /\ ev.bodyIsMap /\ ev.targetFound /\ ev.postOK
        /\ ev.schema \in {"like", "emoji"} /\ ev.emoji \in {"none", "full"}
        /\ ev.reply = "noid"
        /\ ev.author \in {"CCalice", ProxyCCID}
        /\ ev.meta.apObjectRef.kind \in {"absent", "string"}
        /\ ev.meta.apPublisherInbox \in {NoValue, String("https://remote.example/inbox")} }

InitEcho ==
    /\ InitOthers
    /\ followers = {[id |-> "f1", subscriber |-> "r1", publisher |-> "alice",
                     inbox |-> InboxOf("r1")]}
    /\ \E ev \in EchoEvents :
         conv = [NoConv EXCEPT !.fn = "Association", !.arg = ev]

\* The follower workers with messages of alice and of the proxy in the home
\* stream, and the round of the association worker.
NextEcho ==
    \/ TickRead
    \/ TickStartWorker
    \/ TickCancel
    \/ \E e \in EventIDs, c \in {"CCalice", ProxyCCID} : Publish(e, c)
    \/ \E k \in WorkerIDs : WorkerExit(k)
    \/ \E k \in WorkerIDs : WorkerReceive(k)
    \/ \E k \in WorkerIDs : WorkerHandle(k)
    \/ CallAssociation

SpecEcho == InitEcho /\ [][NextEcho]_vars

\* ------------------------------------------------ the start of workers
\* POST /ap/api/entity by alice, which writes the home stream of her entity.
HomeActs ==
    { a \in CreateEntityActs : a.user = "CCalice" /\ a.id = "alice" }

\* A tick whose GetAllFollowers returns the table.
TickReadOK == TickRead /\ sup'.jobs = followers

NextFleet ==
    \/ \E a \in FleetActs \cup HomeActs : StartAlone("s1", a)
    \/ FollowSteps("s1")
    \/ CreateEntityLookup("s1")
    \/ CreateEntityUpdate("s1")
    \/ TickRead
    \/ TickStartWorker
    \/ TickCancel
    \/ \E k \in WorkerIDs : WorkerExit(k)

\* The ticker fires every ten seconds and the read of the table succeeds
\* again and again; every handler and every goroutine that can take a step
\* takes it.
FairFleet ==
    /\ SF_vars(TickReadOK)
    /\ WF_vars(TickStartWorker)
    /\ WF_vars(TickCancel)
    /\ WF_vars(FollowSteps("s1"))
    /\ WF_vars(CreateEntityLookup("s1") \/ CreateEntityUpdate("s1"))
    /\ \A k \in WorkerIDs : WF_vars(WorkerExit(k))

SpecFleet == Init /\ [][NextFleet]_vars /\ FairFleet

\* ================================================================ claims
Done(s) == reqs[s].pc = "done"

\* The bodies with which a handler answers after doing all of its work.
SuccessBodies == {"follow accepted", "like accepted", "note accepted", "OK",
                  "like undoed", "Deleted"}

\* The activity was delivered and answered before the snapshot was taken.
Seen(snap, a) == \E b \in {x[2] : x \in snap.answered} : <<a, b>> \in snap.answered
Handled(snap, a) == \E b \in SuccessBodies : <<a, b>> \in snap.answered

RowsFor(rows, local, remote) ==
    { f \in rows : f.publisher = local /\ f.subscriber = remote }

\* A Follow that names the entity whose inbox it is delivered to, delivered
\* again while the row its first delivery inserted is there.
FollowRedelivered(s) ==
    LET a == reqs[s].act IN
    /\ Done(s)
    /\ a.type = "Follow"
    /\ a.path = a.user
    /\ Handled(reqs[s].pre, a)
    /\ \E f \in reqs[s].pre.followers :
          f.id = a.id /\ f.publisher = a.user /\ f.subscriber = a.actor

\* C1, as the specification states it: after two deliveries of the same
\* Follow to E's inbox there is one ApFollower row for (E, R) and one Accept
\* was POSTed to R's inbox, so the second delivery POSTs none.
C1_OneAcceptForTwoFollows ==
    \A s \in Slots :
        FollowRedelivered(s) /\ ~reqs[s].upFail =>
            /\ Cardinality(RowsFor(followers, reqs[s].act.user, reqs[s].act.actor)) = 1
            /\ accepts = reqs[s].pre.accepts

\* C1, amended: after two deliveries of the same Follow to E's inbox there is
\* exactly one ApFollower row for (E, R), the second delivery is answered
\* "follow already exists" and leaves the table as it was, and an Accept is
\* POSTed to R's inbox on each of the two deliveries.
C1_OneRowAcceptPerFollow ==
    \A s \in Slots :
        LET a == reqs[s].act
            box == InboxOf(a.actor) IN
        /\ FollowRedelivered(s) =>
              /\ Cardinality(RowsFor(followers, a.user, a.actor)) = 1
              /\ followers = reqs[s].pre.followers
              /\ ~reqs[s].upFail =>
                    /\ reqs[s].status = 200
                    /\ reqs[s].body = "follow already exists"
                    /\ accepts[box] = reqs[s].pre.accepts[box] + 1
        /\ Done(s) /\ a.type = "Follow" /\ reqs[s].body = "follow accepted" =>
              /\ RowsFor(reqs[s].pre.followers, LastSegment(a), a.actor) = {}
              /\ Cardinality(RowsFor(followers, LastSegment(a), a.actor)) = 1
              /\ accepts[box] = reqs[s].pre.accepts[box] + 1

C1_Witness ==
    \E s \in Slots :
        FollowRedelivered(s) /\ reqs[s].body = "follow already exists"

\* C5: no two ApFollower rows have the same (publisherUserID,
\* subscriberPersonURL), also when Follow deliveries of the same remote actor
\* to the same entity run in parallel.
C5_UniqueFollowerTuple ==
    \A f, g \in followers :
        f.publisher = g.publisher /\ f.subscriber = g.subscriber => f = g

\* Two parallel Follows of the same pair both passed the existence check, and
\* the unique index refused the second insert.
C5_Witness ==
    \E s \in Slots :
        /\ Done(s)
        /\ reqs[s].act.type = "Follow"
        /\ reqs[s].body = "Internal server error (save follow error)"
        /\ \E f \in followers :
              /\ f.id # reqs[s].act.id
              /\ f.publisher = LastSegment(reqs[s].act)
              /\ f.subscriber = reqs[s].act.actor

ObjectsOf(id) ==
    { m \in messages : m.origin = id } \cup { x \in associations : x.origin = id }

\* A Like of an existing note, delivered again with no Undo of it in between.
LikeRedelivered(s) ==
    LET a == reqs[s].act IN
    /\ Done(s)
    /\ a.type = "Like"
    /\ MessageGet(TargetID(a)) # {}
    /\ Seen(reqs[s].pre, a)
    /\ \A u \in UndoLikeActs : u.id = a.id => ~Seen(reqs[s].pre, u)

\* C2, as the specification states it: two deliveries of a Like whose target
\* note exists produce exactly one association, and the second is answered
\* "like already exists".
C2_ExactlyOneAssociation ==
    \A s \in Slots :
        LikeRedelivered(s) =>
            /\ reqs[s].body = "like already exists"
            /\ Cardinality(ObjectsOf(reqs[s].act.id)) = 1

\* C2, amended: the second delivery is answered "like already exists" and
\* posts nothing, so that the two deliveries produce at most one association:
\* exactly one when the first delivery was answered "like accepted", none
\* when the first delivery stopped after its claim.
C2_AtMostOneAssociation ==
    \A s \in Slots :
        LikeRedelivered(s) =>
            /\ reqs[s].status = 200
            /\ reqs[s].body = "like already exists"
            /\ associations = reqs[s].pre.associations
            /\ svcCalls = reqs[s].pre.svcCalls
            /\ Cardinality(ObjectsOf(reqs[s].act.id)) =
                  IF Handled(reqs[s].pre, reqs[s].act) THEN 1 ELSE 0

C2_Witness ==
    \E s \in Slots :
        /\ LikeRedelivered(s)
        /\ Handled(reqs[s].pre, reqs[s].act)
        /\ Cardinality(ObjectsOf(reqs[s].act.id)) = 1

\* The request passed CreateApObjectReference and has not returned yet.
PastClaim(s) ==
    reqs[s].pc \in {"like_entity", "like_fetch", "like_post", "like_fill",
                    "create_follows", "create_fetch", "create_post",
                    "create_fill"}

LostClaim(s) ==
    /\ Done(s)
    /\ reqs[s].body \in {"like already exists", "note already exists"}

\* C3: of the parallel inbox requests that carry the same Create{Note} object
\* id or the same Like id at most one is past the CreateApObjectReference
\* claim, a request that lost the claim is answered 200, and at most one CC
\* message or association made from that id exists.
C3_OneClaimant ==
    /\ \A s, u \in Slots :
          PastClaim(s) /\ PastClaim(u) /\ reqs[s].act.id = reqs[u].act.id => s = u
    /\ \A s \in Slots : LostClaim(s) => reqs[s].status = 200
    /\ \A id \in LikeIDs \cup NoteIDs : Cardinality(ObjectsOf(id)) <= 1

\* Two requests with the same activity in parallel: one holds the claim, the
\* other was turned away in the meantime.
C3_Witness ==
    \E s, u \in Slots :
        /\ PastClaim(s)
        /\ LostClaim(u)
        /\ reqs[u].act = reqs[s].act
        /\ reqs[u].pre.refs = reqs[s].pre.refs
        /\ GetApObjectReferenceByApObjectID(reqs[s].act.id) \cap reqs[s].pre.refs = {}

\* C4: whenever no request is in flight, every CC message or association the
\* bridge made from an AP object is bound by exactly one ApObjectReference
\* row, whose ccObjectID is that object's id.
C4_EveryObjectBound ==
    Quiescent =>
        \A o \in { m \in messages : m.origin # "" } \cup associations :
            Cardinality({ r \in refs : r.cc = o.id }) = 1

\* The note C is bound to a CC message when the Delete arrives.
BoundNote(snap, ap) ==
    { r \in snap.refs :
        /\ r.ap = ap
        /\ r.cc # NoCc
        /\ \E m \in snap.messages : m.id = r.cc /\ m.origin = ap }

\* C7: a Delete of the object id C, delivered when a Create turned C into a
\* CC message, deletes that message through the message service (unless the
\* service reports an error) and the cross-reference row of C, and nothing
\* else.
C7_DeleteRemovesBoth ==
    \A s \in Slots :
        LET a == reqs[s].act
            bound == BoundNote(reqs[s].pre, a.id) IN
        Done(s) /\ a.type = "Delete" /\ bound # {} /\ ~reqs[s].upFail =>
            /\ reqs[s].body = "Deleted"
            /\ GetApObjectReferenceByApObjectID(a.id) = {}
            /\ \A r \in bound : MessageGet(r.cc) = {}
            /\ refs = reqs[s].pre.refs \ bound
            /\ messages = { m \in reqs[s].pre.messages :
                              \A r \in bound : m.id # r.cc }

C7_Witness ==
    \E s \in Slots :
        /\ Done(s)
        /\ reqs[s].act.type = "Delete"
        /\ reqs[s].body = "Deleted"
        /\ BoundNote(reqs[s].pre, reqs[s].act.id) # {}
        /\ \E c \in CreateActs : c.id = reqs[s].act.id /\ Handled(reqs[s].pre, c)

\* The Like L is bound to an association when the Undo arrives.
BoundLike(snap, ap) ==
    { r \in snap.refs :
        /\ r.ap = ap
        /\ \E x \in snap.associations : x.id = r.cc /\ x.origin = ap }

IsUndoLike(s) ==
    Done(s) /\ reqs[s].act.type = "Undo" /\ reqs[s].act.inner = "Like"

\* C8: an Undo{Like{id:L}} delivered after the Like was processed deletes the
\* association bound to L (unless the association service reports an error)
\* and the cross-reference row of L; an Undo delivered when no row of L is
\* there is answered "like not found", changes nothing and calls the
\* association service not at all.
C8_UndoLike ==
    \A s \in Slots :
        LET a == reqs[s].act
            bound == BoundLike(reqs[s].pre, a.id) IN
        /\ IsUndoLike(s) /\ bound # {} /\ ~reqs[s].upFail =>
              /\ reqs[s].body = "like undoed"
              /\ GetApObjectReferenceByApObjectID(a.id) = {}
              /\ \A r \in bound : AssociationGet(r.cc) = {}
              /\ associations = { x \in reqs[s].pre.associations :
                                    \A r \in bound : x.id # r.cc }
        /\ IsUndoLike(s) /\ { r \in reqs[s].pre.refs : r.ap = a.id } = {} =>
              /\ reqs[s].body = "like not found"
              /\ refs = reqs[s].pre.refs
              /\ associations = reqs[s].pre.associations
              /\ messages = reqs[s].pre.messages
              /\ followers = reqs[s].pre.followers
              /\ svcCalls = reqs[s].pre.svcCalls

\* The Undo was delivered, undid the Like, and is delivered once more.
C8_Witness ==
    \E s \in Slots :
        /\ IsUndoLike(s)
        /\ Handled(reqs[s].pre, reqs[s].act)
        /\ reqs[s].body = "like not found"

\* The request repeats an activity that was processed before and whose
\* effect is still in place.
Duplicate(s) ==
    LET a == reqs[s].act
        pre == reqs[s].pre
        row == { r \in pre.refs : r.ap = a.id } IN
    /\ Done(s)
    /\ Handled(pre, a)
    /\ CASE a.type = "Follow" -> RowsFor(pre.followers, LastSegment(a), a.actor) # {}
         [] a.type = "Like" -> row # {}
         [] a.type = "Create" -> row # {}
         [] a.type = "Delete" -> row = {}
         [] a.type = "Undo" /\ a.inner = "Like" -> row = {}
         [] a.type = "Undo" /\ a.inner = "Follow" ->
               RowsFor(pre.followers, TrimAcctPrefix(a), a.actor) = {}
         [] OTHER -> FALSE

\* C10: a delivery that repeats an already processed Follow, Like,
\* Create{Note}, Undo{Follow}, Undo{Like} or Delete is answered 200, never
\* with a 4xx status.
C10_DuplicateAnswered200 ==
    \A s \in Slots :
        Duplicate(s) /\ ~reqs[s].upFail => reqs[s].status = 200


\* --------------------------------------------------------------------- C6
\* C6: over the whole run the fan-out workers make at most one POST of one
\* event to one subscriber inbox.
C6_AtMostOnePostPerEventInbox ==
    \A x \in DOMAIN delivered : delivered[x] <= 1

\* --------------------------------------------------------------------- C9
Running(k) == workers[k].state \in {"recv", "got"}

\* C9: a tick reads the follower table, so a deleted row is no job of it; the
\* tick's cancel loop cancels every worker whose row is no job and leaves no
\* entry for it in the workers map; and a worker that finds its context
\* cancelled at the select takes no further event, so it makes no further
\* POST (a POST is made only by a worker that holds an event).
C9_CancelledWorkerStops ==
    [][/\ (sup.pc = "wait" /\ sup'.pc = "start") => sup'.jobs \subseteq followers
       /\ (sup.pc = "start" /\ sup'.pc = "wait") =>
             /\ registered' \subseteq JobIDs(sup.jobs)
             /\ \A k \in WorkerIDs :
                  (Running(k) /\ workers[k].fid \notin JobIDs(sup.jobs))
                     => workers'[k].cancelled
       /\ \A k \in WorkerIDs :
            (workers[k].state = "recv" /\ workers[k].cancelled)
               => workers'[k].state # "got"
       /\ delivered' # delivered =>
             \E k \in WorkerIDs :
                /\ workers[k].state = "got"
                /\ delivered' = [delivered EXCEPT
                      ![<<workers[k].msg.id, workers[k].inbox>>] = @ + 1]
      ]_vars

\* A worker was cancelled and unregistered by a tick after its row was
\* deleted, with an event it had not taken still waiting for it.
C9_Witness ==
    \E k \in WorkerIDs :
       /\ workers[k].state = "recv"
       /\ workers[k].cancelled
       /\ workers[k].queue # <<>>
       /\ workers[k].fid \notin registered
       /\ workers[k].fid \notin JobIDs(followers)
       /\ sup.pc = "wait"

\* -------------------------------------------------------------------- C11
IsInbox(s) == reqs[s].act.type \in {"Follow", "Like", "Create", "Undo", "Delete"}

\* The answers the inbox gives when FetchPerson, the fetch of the remote
\* actor, fails.
FetchPersonBodies == {"Invalid request body", "failed to fetch actor"}

\* An upstream call other than the actor fetch failed: the Accept POST, a
\* call of the message or association service, or a database write.
UpstreamFailed(s) ==
    /\ Done(s)
    /\ IsInbox(s)
    /\ \/ reqs[s].upFail /\ reqs[s].body \notin FetchPersonBodies
       \/ reqs[s].body = "Internal server error (save follow error)"

\* C11: when the Accept POST, a CC message or association service call or a
\* database write fails while the inbox handles an activity, the inbox
\* answers with status 200, never with a 5xx status.
C11_UpstreamFailureAnswered200 ==
    \A s \in Slots : UpstreamFailed(s) => reqs[s].status = 200

\* -------------------------------------------------------------------- C12
SerializesEntity(s) ==
    /\ Done(s)
    /\ reqs[s].act.type \in {"CreateEntity", "GetEntityID"}
    /\ reqs[s].status = 200

\* C12: no answer carries a non-empty Entity private key: every answer of
\* CreateEntity (create and update) and of GetEntityID that serializes an
\* ApEntity carries that entity with an empty privatekey field, while the
\* row of the table keeps its key.
C12_PrivateKeyNeverSerialized ==
    /\ \A s \in Slots :
          "privatekey" \in DOMAIN reqs[s].content =>
              reqs[s].content.privatekey = NoKey
    /\ \A s \in Slots :
          SerializesEntity(s) =>
              /\ DOMAIN reqs[s].content = {"id", "ccid", "home", "followStream", "privatekey"}
              /\ reqs[s].content.privatekey = NoKey
    /\ \A e \in entities : e.privatekey = PrivKeyPEM(e.id)

\* CreateEntity made a new entity, whose row holds a key, and answered with
\* the entity.
C12_Witness ==
    \E s \in Slots :
        /\ SerializesEntity(s)
        /\ reqs[s].act.type = "CreateEntity"
        /\ reqs[s].content.id \notin { e.id : e \in InitEntities }
        /\ \E e \in entities :
              /\ e.id = reqs[s].content.id
              /\ e.privatekey # NoKey
              /\ reqs[s].content = [e EXCEPT !.privatekey = NoKey]

\* -------------------------------------------------------------------- C13
\* The length of Note.content plus the image markdown appended for the
\* attachments of type Document.
DerivedLength(note) ==
    note.content +
    Cardinality({ i \in DOMAIN note.attachment :
                    note.attachment[i].type = "Document" /\ note.attachment[i].url = 0 }) * 12 +
    Cardinality({ i \in DOMAIN note.attachment :
                    note.attachment[i].type = "Document" /\ note.attachment[i].url # 0 })
        * (12 + MaxUrlLen)

NoteToMessageReturned == conv.fn = "NoteToMessage" /\ conv.returned

\* C13: NoteToMessage returns the error "empty note" when the derived content
\* has length 0 and the error "note too long" when its length is over 4096,
\* in both cases without a call of PostMessage; for every length from 1 to
\* 4096 PostMessage is called.
C13_LengthChecks ==
    NoteToMessageReturned =>
        LET n == DerivedLength(conv.arg) IN
        /\ n = 0 => conv.err = "empty note" /\ conv.posted = 0
        /\ n > 4096 => conv.err = "note too long" /\ conv.posted = 0
        /\ (n = 0 \/ n > 4096) => messages = { m \in messages : m.origin = "" }
        /\ (1 <= n /\ n <= 4096) => conv.posted = 1

\* A note whose content alone is within the limit and whose image markdown
\* takes it over the limit was refused.
C13_Witness ==
    /\ NoteToMessageReturned
    /\ conv.arg.content <= 4096
    /\ DerivedLength(conv.arg) > 4096
    /\ conv.err = "note too long"

\* -------------------------------------------------------------- C14, C15
MessageToNoteReturned(schema) ==
    /\ conv.fn = "MessageToNote"
    /\ conv.returned
    /\ conv.err = ""
    /\ conv.arg.schema = schema

IsImage(piece) == piece \in {"image1", "image2"}

\* The body without its image markdown, and the urls of its image markdown.
RECURSIVE OtherText(_)
OtherText(ps) ==
    IF ps = <<>> THEN <<>>
    ELSE (IF IsImage(Head(ps)) THEN <<>> ELSE Pieces[Head(ps)]) \o OtherText(Tail(ps))

RECURSIVE ImageUrls(_)
ImageUrls(ps) ==
    IF ps = <<>> THEN <<>>
    ELSE (IF Head(ps) = "image1" THEN << <<"1">> >>
          ELSE IF Head(ps) = "image2" THEN << <<"2">> >>
          ELSE <<>>) \o ImageUrls(Tail(ps))

\* C14: a reroute message converts to an Announce whose object is the
\* resolved reference when its body text is empty, and otherwise to a Note
\* whose quoteUrl is the resolved reference and whose content is the text
\* (without its image markdown).
C14_RerouteAnnounceOrQuote ==
    MessageToNoteReturned("reroute") =>
        IF conv.arg.body = <<>>
        THEN /\ conv.out.type = "Announce"
             /\ conv.out.object = ResolveRef(conv.arg.source)
        ELSE /\ conv.out.type = "Note"
             /\ conv.out.quoteUrl = ResolveRef(conv.arg.source)
             /\ conv.out.content = OtherText(conv.arg.body)

\* C15: a note body with any number of image markdowns converts to a Note
\* with one Document attachment per image markdown, with the urls in their
\* order, and with the body without those image markdowns as content.
C15_ImagesToAttachments ==
    MessageToNoteReturned("note") =>
        /\ conv.out.attachment = ImageUrls(conv.arg.body)
        /\ conv.out.content = OtherText(conv.arg.body)

\* -------------------------------------------------------------------- C16
Plain(words) == \A i \in DOMAIN words : words[i] \notin {":", "@"}

\* The resource reads acct:<user>@<domain>.
WellFormed(r, user, domain) ==
    /\ Plain(user)
    /\ Plain(domain)
    /\ r = <<"acct", ":">> \o user \o <<"@">> \o domain

UsersOf(r) ==
    { u \in { SubSeq(r, 3, k) : k \in 2..Len(r) } :
        \E d \in { SubSeq(r, k, Len(r)) : k \in 1..(Len(r) + 1) } :
            WellFormed(r, u, d) }

LocalUsersOf(r) == { u \in UsersOf(r) : WellFormed(r, u, <<FQDN>>) }

\* C16: webfinger answers 200 with the single self link
\* https://<fqdn>/ap/acct/<user> when the resource is acct:<user>@<fqdn> and
\* the entity <user> exists, 400 when the domain is not the FQDN or the
\* resource is malformed, 404 when the domain is the FQDN and there is no
\* entity <user>; no table is changed.
C16_WebFinger ==
    (conv.fn = "WebFinger" /\ conv.returned) =>
        LET r == conv.arg IN
        /\ entities = InitEntities
        /\ refs = {} /\ followers = {} /\ persons = {}
        /\ LocalUsersOf(r) = {} => conv.out.status = 400
        /\ \A u \in LocalUsersOf(r) :
              IF \E e \in entities : <<e.id>> = u
              THEN /\ conv.out.status = 200
                   /\ conv.out.links =
                        << [rel |-> "self",
                            href |-> <<"https://", FQDN, "/ap/acct/">> \o u] >>
              ELSE conv.out.status = 404

\* An entity of this server was found.
C16_Witness ==
    /\ conv.fn = "WebFinger"
    /\ conv.returned
    /\ conv.arg = <<"acct", ":", "alice", "@", FQDN>>
    /\ conv.out.status = 200

\* ------------------------------------------------------------------ C17
\* The request in slot s is an inbound Follow about to insert the row, after
\* its Accept was POSTed to the inbox of the requester.
InsertsAfterAccept(s, row) ==
    LET a == reqs[s].act
        box == InboxOf(a.actor) IN
    /\ a.type = "Follow"
    /\ reqs[s].pc = "follow_save"
    /\ reqs'[s].body = "follow accepted"
    /\ ~reqs[s].upFail
    /\ accepts[box] > reqs[s].pre.accepts[box]
    /\ row = [id |-> a.id, subscriber |-> a.actor,
              publisher |-> LastSegment(a), inbox |-> box]

\* The request in slot s is an inbound Undo{Follow} of the pair of the row.
UndoesPair(s, row) ==
    LET a == reqs[s].act IN
    /\ a.type = "Undo" /\ a.inner = "Follow"
    /\ reqs[s].pc = "undofollow_remove"
    /\ TrimAcctPrefix(a) = row.publisher
    /\ a.actor = row.subscriber

\* C17: an ApFollower row comes into the table only in a step of an inbound
\* Follow whose Accept was POSTed to the requester's inbox before (a Follow
\* whose Accept POST failed inserts nothing), and a row leaves the table only
\* in a step of an inbound Undo{Follow} for the (local entity, remote actor)
\* pair of that row.
C17_FollowerRowLifecycle ==
    [][ /\ \A row \in followers' \ followers :
              \E s \in Slots : InsertsAfterAccept(s, row)
        /\ \A row \in followers \ followers' :
              \E s \in Slots : UndoesPair(s, row)
        /\ \A s \in Slots :
              /\ reqs[s].act.type = "Follow"
              /\ reqs[s].pc = "follow_accept"
              /\ reqs'[s].upFail
              => followers' = followers /\ reqs'[s].pc = "done" ]_vars

\* A row that an accepted Follow inserted was removed by an Undo{Follow},
\* and a Follow whose Accept POST failed has returned.
C17_Witness ==
    /\ \E s \in Slots :
          /\ Done(s)
          /\ reqs[s].act.type = "Undo" /\ reqs[s].act.inner = "Follow"
          /\ reqs[s].body = "OK"
          /\ RowsFor(reqs[s].pre.followers, "alice", reqs[s].act.actor) # {}
          /\ RowsFor(followers, "alice", reqs[s].act.actor) = {}
    /\ \E s \in Slots :
          /\ Done(s)
          /\ reqs[s].act.type = "Follow"
          /\ reqs[s].upFail
          /\ reqs[s].body = "Internal server error"

\* ------------------------------------------------------------------ C18
\* The Follow with this id was POSTed to the remote inbox, the remote's
\* Accept{Follow} for it was delivered and answered, and no request is being
\* handled.
FollowAnswered(id) ==
    /\ id \in sent
    /\ Quiescent
    /\ \E x \in answered : x[1].type = "Accept" /\ x[1].id = id

\* C18: once a local user's Follow was POSTed to the remote inbox and the
\* remote's Accept{Follow} carrying that follow id was handled, the ApFollow
\* row of that id is there with accepted = true, however the steps of the
\* Follow API handler and of the inbox handler interleave.
C18_FollowEndsAccepted ==
    \A a \in AcceptActs :
        FollowAnswered(a.id) =>
            \E f \in follows : f.id = a.id /\ f.accepted

\* ------------------------------------------------------------------ C19
\* The entity of the caller of the request in slot s: the entity whose ccid
\* is the JWT issuer.
CallerEntity(s) == { e.id : e \in GetEntityByCCID(reqs[s].act.user) }

\* C19: a step that creates or modifies an ApPerson row is a step of a
\* PUT /ap/api/person whose caller's own entity has the id of that row; no
\* caller changes the Person overlay of another entity.
C19_OnlyOwnPerson ==
    [][ \A row \in persons' \ persons :
          \E s \in Slots :
              /\ reqs[s].act.type = "UpdatePerson"
              /\ reqs[s].pc = "person_upsert"
              /\ row.id \in CallerEntity(s) ]_vars

\* ------------------------------------------------------------------ C20
\* The ids of the events a worker finished with, and of those it POSTed.
HandledIDs(k) ==
    [i \in 1..Len(workers[k].handled) |-> workers[k].handled[i].id]
PostedIDs(k) ==
    LET posted == SelectSeq(workers[k].handled, LAMBDA h : h.posted)
    IN [i \in 1..Len(posted) |-> posted[i].id]

\* The sequence p is the sequence t with some of its elements left out.
RECURSIVE IsSubSeq(_, _)
IsSubSeq(p, t) ==
    IF p = <<>> THEN TRUE
    ELSE IF t = <<>> THEN FALSE
    ELSE IF Head(p) = Head(t) THEN IsSubSeq(Tail(p), Tail(t))
    ELSE IsSubSeq(p, Tail(t))

\* C20: every worker handles the events it received one at a time and in the
\* order it received them: the events it finished with are the ones it
\* received, in that order, but for the one it holds; so the POSTs it made to
\* the follower's inbox are in the order of the events it received.
C20_PostsInReceiveOrder ==
    \A k \in WorkerIDs :
        LET w == workers[k]
            held == IF w.state = "got" THEN 1 ELSE 0 IN
        /\ Len(w.taken) = Len(w.handled) + held
        /\ HandledIDs(k) = SubSeq(w.taken, 1, Len(w.handled))
        /\ w.state = "got" => w.msg.id = w.taken[Len(w.taken)]
        /\ IsSubSeq(PostedIDs(k), w.taken)

\* A worker POSTed two events that it had received one after the other.
C20_Witness ==
    \E k \in WorkerIDs :
        /\ Len(workers[k].taken) = 2
        /\ Len(PostedIDs(k)) = 2

\* ------------------------------------------------------------------ C21
\* C21: whatever the payload of the events a follower worker receives, no
\* event ends the worker: it goes on to the next receive.
C21_NoEventEndsWorker ==
    \A k \in WorkerIDs : workers[k].state # "panic"

\* ------------------------------------------------------------------ C22
\* C22: a tick cancels a worker, and deletes an entry of the workers map,
\* only when the follower id of it is the id of no row that the ApFollower
\* table holds at that tick, also when the tick's read of the table fails.
C22_CancelledOnlyWhenRowGone ==
    [][ /\ \A k \in WorkerIDs :
              (Running(k) /\ ~workers[k].cancelled /\ workers'[k].cancelled)
                 => workers[k].fid \notin JobIDs(sup.table)
        /\ \A id \in registered \ registered' :
              id \notin JobIDs(sup.table) ]_vars

\* ------------------------------------------------------------------ C23
\* C23: a step of the inbox handler for a request whose HTTP signature was
\* not verified (none, or a wrong one) changes no Follower row, Follow row,
\* cross-reference, CC message or association.
C23_UnsignedChangesNothing ==
    [][ \A s \in Slots :
          (IsInbox(s) /\ InFlight(s) /\ ~reqs[s].act.signed /\ reqs'[s] # reqs[s])
             => UNCHANGED <<followers, follows, refs, messages, associations>>
      ]_vars

\* ------------------------------------------------------------------ C24
\* C24: the ApFollower row that a Follow delivered to /ap/acct/:id/inbox
\* inserts has :id as its publisherUserID, whatever the object of the Follow.
C24_PublisherIsPathEntity ==
    \A s \in Slots :
        LET a == reqs[s].act IN
        (Done(s) /\ a.type = "Follow" /\ reqs[s].body = "follow accepted") =>
            \A f \in followers \ reqs[s].pre.followers : f.publisher = a.path

\* ------------------------------------------------------------------ C25
\* The request in slot s is a Like that is about to look its target up, and
\* the CC message service has no message of that id.
LikeOfMissingTarget(s) ==
    /\ reqs[s].act.type = "Like"
    /\ reqs[s].pc = "like_get"
    /\ MessageGet(TargetID(reqs[s].act)) = {}

\* C25: a Like whose target CC message does not exist is answered 200
\* "message not found" by its first step, which ends the request: no claim
\* row is created, the remote Person is not fetched, no association is
\* posted, and no table, message or association changes.
C25_LikeOfMissingTargetDropped ==
    [][ \A s \in Slots :
          (LikeOfMissingTarget(s) /\ reqs'[s] # reqs[s]) =>
              /\ reqs'[s].pc = "done"
              /\ reqs'[s].status = 200
              /\ reqs'[s].body = "message not found"
              /\ ~reqs'[s].upFail
              /\ UNCHANGED <<dbVars, workerVars, sideVars>> ]_vars

\* A Like of a message that does not exist was answered.
C25_Witness ==
    \E s \in Slots :
        /\ Done(s)
        /\ reqs[s].act.type = "Like"
        /\ reqs[s].act.target = MissingNote
        /\ reqs[s].body = "message not found"
        /\ refs = reqs[s].pre.refs
        /\ svcCalls = reqs[s].pre.svcCalls

\* ------------------------------------------------------------------ C26
\* The first tag of the list has a name that begins with ":".
FirstTagIsEmoji(tag) ==
    /\ ~tag.nil
    /\ Len(tag.list) > 0
    /\ Len(tag.list[1].name) > 0
    /\ Head(tag.list[1].name) = ":"

\* C26: for every shape of the tag list of a Like the association is built
\* with the like schema when the list is absent or empty or the name of its
\* first tag does not begin with ":" (an empty name included), and otherwise
\* with the emoji schema, shortcode = tag[0].name, imageUrl = variant =
\* tag[0].icon.url.
C26_LikeOrEmoji ==
    (conv.fn = "LikeSchema" /\ conv.returned) =>
        IF FirstTagIsEmoji(conv.arg)
        THEN conv.out = [schema |-> "emoji",
                         shortcode |-> conv.arg.list[1].name,
                         imageUrl |-> conv.arg.list[1].icon,
                         variant |-> conv.arg.list[1].icon]
        ELSE conv.out = [schema |-> "like"]

\* ------------------------------------------------------------------ C27
\* The activity has a type that is none of Follow, Like, Create, Accept, Undo
\* and Delete, or it is a Create of an object that is no Note.
Unhandled(a) ==
    \/ a.type \in {"Announce", "Update", "Move", "Block", "Add", "Remove"}
    \/ a.type = "Create" /\ a.inner # "Note"

\* C27: an activity of a type the inbox does not handle, and a Create of an
\* object that is no Note, is answered 200 "OK but not implemented" by the
\* one step its request takes; that step creates, updates and deletes no row,
\* message or association and POSTs nothing.
C27_UnhandledChangesNothing ==
    [][ \A s \in Slots :
          (InFlight(s) /\ Unhandled(reqs[s].act) /\ reqs'[s] # reqs[s]) =>
              /\ reqs'[s].pc = "done"
              /\ reqs'[s].status = 200
              /\ reqs'[s].body = "OK but not implemented"
              /\ UNCHANGED <<dbVars, workerVars, sideVars>> ]_vars

\* An Announce and a Create of a Question were answered.
C27_Witness ==
    /\ \E s \in Slots :
          /\ Done(s) /\ reqs[s].act.type = "Announce"
          /\ reqs[s].body = "OK but not implemented"
    /\ \E s \in Slots :
          /\ Done(s) /\ reqs[s].act.type = "Create"
          /\ reqs[s].act.inner = "Question"
          /\ reqs[s].body = "OK but not implemented"

\* ------------------------------------------------------------------ C28
\* The ApFollow table with the row of this id accepted.
Accepted(rows, id) ==
    { IF f.id = id THEN [f EXCEPT !.accepted = TRUE] ELSE f : f \in rows }

UndoFollowDone(s) ==
    /\ Done(s)
    /\ reqs[s].act.type = "Undo"
    /\ reqs[s].act.inner = "Follow"

\* Nothing but the ApFollower table differs from the snapshot.
OnlyFollowersChanged(snap) ==
    /\ follows = snap.follows /\ refs = snap.refs
    /\ messages = snap.messages /\ associations = snap.associations
    /\ accepts = snap.accepts /\ svcCalls = snap.svcCalls

\* C29: an Undo{Follow} delivered while the row of (the local entity of the
\* object URL, the remote actor) is there removes that row and no other and
\* is answered 200 "OK"; delivered when there is no such row, as every later
\* delivery of the same Undo is, it is answered 200 "follow already undoed"
\* and changes nothing.
C29_UndoFollowIdempotent ==
    \A s \in Slots :
        UndoFollowDone(s) =>
            LET a == reqs[s].act
                snap == reqs[s].pre
                rows == RowsFor(snap.followers, TrimAcctPrefix(a), a.actor) IN
            /\ reqs[s].status = 200
            /\ OnlyFollowersChanged(snap)
            /\ IF rows = {}
               THEN /\ reqs[s].body = "follow already undoed"
                    /\ followers = snap.followers
               ELSE /\ reqs[s].body = "OK"
                    /\ Cardinality(rows) = 1
                    /\ followers = snap.followers \ rows
            /\ (\E x \in snap.answered : x[1] = a /\ x[2] = "OK") /\ rows = {}
                  => reqs[s].body = "follow already undoed"

\* The same Undo{Follow} was delivered again after it had removed the row.
C29_Witness ==
    \E s \in Slots :
        /\ UndoFollowDone(s)
        /\ <<reqs[s].act, "OK">> \in reqs[s].pre.answered
        /\ reqs[s].body = "follow already undoed"

\* ------------------------------------------------------------------ C30
\* The ApFollower row of this id is there and the entity of its publisher
\* has a home stream.
RowLive(f) ==
    \E row \in followers :
        /\ row.id = f
        /\ \E e \in entities : e.id = row.publisher /\ e.home # ""

\* A worker of this follower id runs and is not cancelled.
Served(f) ==
    \E k \in WorkerIDs :
        Running(k) /\ ~workers[k].cancelled /\ workers[k].fid = f

\* C30: with ticks that come again and again, an ApFollower row whose
\* publisher has a home stream gets a running worker unless the row goes or
\* the home stream is taken away, also when the home stream was empty at the
\* tick that first saw the row.
C30_LiveRowGetsWorker ==
    \A f \in FollowIDs : RowLive(f) ~> (Served(f) \/ ~RowLive(f))

\* ------------------------------------------------------------------ C31
\* The round of the association worker has come to the target message: the
\* event names an association of a message, its author has an entity, its
\* body is an object and the target message is found.
ReachedTarget ==
    /\ conv.fn = "Association" /\ conv.returned
    /\ conv.arg.event = "message"
    /\ GetEntityByCCID(conv.arg.author) # {}
    /\ conv.arg.bodyIsMap /\ conv.arg.targetFound

BothMetaStrings(meta) ==
    /\ meta.isMap
    /\ meta.apObjectRef.kind = "string"
    /\ meta.apPublisherInbox.kind = "string"

\* C31: the association worker calls PostToInbox only for a target whose
\* meta.apObjectRef and meta.apPublisherInbox are strings, and then with that
\* apPublisherInbox as the destination; for a target without them (no meta,
\* or either key missing or no string) it POSTs nothing and goes on with the
\* next event.
C31_PostsOnlyToPublisherInbox ==
    (conv.fn = "Association" /\ conv.returned) =>
        /\ (conv.posted > 0 \/ conv.out # <<>>) =>
              /\ ReachedTarget
              /\ BothMetaStrings(conv.arg.meta)
        /\ \A i \in 1..Len(conv.out) :
              conv.out[i].dest = conv.arg.meta.apPublisherInbox.s
        /\ (ReachedTarget /\ ~BothMetaStrings(conv.arg.meta)) =>
              /\ conv.posted = 0 /\ conv.out = <<>>
              /\ conv.err = "target Message is not activitypub message"

C31_Witness ==
    /\ ReachedTarget
    /\ Len(conv.out) = 1
    /\ conv.arg.meta.apPublisherInbox.s = "https://other.example/inbox"
    /\ conv.out[1].dest = "https://other.example/inbox"

\* ------------------------------------------------------------------ C32
\* The positions of the links whose Rel is "self", and of those of them
\* whose Href is not empty.
SelfAt(links) == { i \in 1..Len(links) : links[i].rel = "self" }
SelfWithHrefAt(links) == { i \in SelfAt(links) : links[i].href # "" }
Least(S) == CHOOSE i \in S : \A j \in S : i <= j

\* C32 as stated: ResolveActor returns the Href of the first link whose Rel
\* is "self" and whose Href is not empty, and an error when there is none.
C32_FirstSelfLinkWithHref ==
    (conv.fn = "ResolveActor" /\ conv.returned) =>
        IF SelfWithHrefAt(conv.arg) = {}
        THEN conv.err # ""
        ELSE /\ conv.err = ""
             /\ conv.out = conv.arg[Least(SelfWithHrefAt(conv.arg))].href

\* C32, amended: ResolveActor looks at the last link whose Rel is "self"; it
\* returns the Href of that link when it is not empty, and an error when
\* that Href is empty or no link has Rel "self".
C32_LastSelfLink ==
    (conv.fn = "ResolveActor" /\ conv.returned) =>
        LET self == SelfAt(conv.arg)
        IN IF self = {} \/ conv.arg[Greatest(self)].href = ""
           THEN conv.err = "no ap link found" /\ conv.out = ""
           ELSE conv.err = "" /\ conv.out = conv.arg[Greatest(self)].href

C32_Witness ==
    /\ conv.fn = "ResolveActor" /\ conv.returned
    /\ Cardinality(SelfWithHrefAt(conv.arg)) = 2
    /\ conv.arg[Least(SelfWithHrefAt(conv.arg))].href # conv.out
    /\ conv.err = ""

\* ------------------------------------------------------------------ C33
\* Signing failed in the call: the key did not load, NewSigner failed or
\* SignRequest failed (the cache did not answer instead).
SigningFailed(c) ==
    /\ ~(c.op = "FetchPerson" /\ c.cached)
    /\ LoadKey(c.key) # "" \/ ~c.signer \/ ~c.sign

\* C33: when signing fails, PostToInbox, FetchPerson and FetchNote return an
\* error and send no request; no request is sent without a signature.
C33_NoUnsignedRequest ==
    (conv.fn = "Client" /\ conv.returned) =>
        /\ SigningFailed(conv.arg) => (conv.err # "" /\ ~conv.out.sent)
        /\ conv.out.sent => conv.out.signed

\* ------------------------------------------------------------------ C34
\* MessageToNote has come to the reply branch of a reply whose referenced
\* message exists: the message itself was read and its author has an entity.
ReplyToExisting ==
    /\ conv.fn = "MessageToNote" /\ conv.returned
    /\ conv.arg.schema = "reply"
    /\ conv.arg.source \in {"nometa", "local", "remote"}
    /\ conv.err \notin {"message not found", "entity not found"}

\* C34: for a reply whose referenced message exists, MessageToNote returns a
\* Note whose inReplyTo is meta.apObjectRef of the referenced message when
\* it has that key, and the note URL of this server for the referenced id in
\* every other case, also when the referenced message has no meta.
C34_ReplyRefResolved ==
    ReplyToExisting =>
        /\ conv.err = ""
        /\ conv.out.type = "Note"
        /\ conv.out.inReplyTo =
              IF conv.arg.source = "remote" THEN "https://remote.example/note/9"
              ELSE "https://cc.example/ap/note/m0"

\* ------------------------------------------------------------------ C35
\* The follow id of the UnFollow request in slot s, once its entity is read.
UnFollowID(s) == FollowID(reqs[s].held.id, reqs[s].act.actor)

\* C35: a step of an UnFollow request changes the ApFollow table only by
\* removing the row of its follow id, pending or accepted, and only when its
\* Undo{Follow} has been POSTed; when the POST fails the request is answered
\* 500 and the table is as it was when the request came; and when the
\* request is answered 200 the table has no row of its follow id.
C35_UnFollowRemovesAfterPost ==
    [][ \A s \in Slots :
          (InFlight(s) /\ reqs[s].act.type = "UnFollowApi" /\ reqs'[s] # reqs[s]) =>
              /\ follows' # follows =>
                    /\ UndoID(UnFollowID(s)) \in sent
                    /\ ~reqs[s].upFail
                    /\ follows' = { f \in follows : f.id # UnFollowID(s) }
                    /\ reqs'[s].status = 200
              /\ (reqs[s].pc = "unfollow_post" /\ reqs'[s].upFail) =>
                    /\ reqs'[s].pc = "done" /\ reqs'[s].status = 500
                    /\ follows' = reqs[s].pre.follows
              /\ (reqs'[s].pc = "done" /\ reqs'[s].status = 200) =>
                    /\ \A f \in follows' : f.id # UnFollowID(s)
                    /\ follows' # follows ]_vars

\* An UnFollow was answered 200 with the accepted row it removed, its Undo
\* was POSTed, and the row is gone.
C35_Witness ==
    \E s \in Slots :
        /\ Done(s)
        /\ reqs[s].act.type = "UnFollowApi"
        /\ reqs[s].status = 200
        /\ reqs[s].content.accepted
        /\ UndoID(reqs[s].content.id) \in sent
        /\ \A f \in follows : f.id # reqs[s].content.id

\* ------------------------------------------------------------------ C36
\* An inbound Create{Note} or Like.
ClaimingAct(a) ==
    \/ a.type = "Like"
    \/ a.type = "Create" /\ a.inner = "Note"

\* The request in slot s is answered by this step.
Answers(s) == reqs[s].pc # "done" /\ reqs'[s].pc = "done"

\* C36: a Create{Note} or Like that comes when the cross-reference table has
\* a row of its id is answered 200 and writes no message, no association and
\* no cross-reference, whatever the row's ccObjectID; and a row leaves the
\* table only in a step of a Delete, of an Undo{Like} or of ImportNote.
C36_ClaimTurnsDeliveriesAway ==
    [][ /\ \A s \in Slots :
              (/\ Answers(s)
               /\ ClaimingAct(reqs[s].act)
               /\ \E r \in reqs[s].pre.refs : r.ap = reqs[s].act.id) =>
                  /\ reqs'[s].status = 200
                  /\ messages' = reqs[s].pre.messages
                  /\ associations' = reqs[s].pre.associations
                  /\ refs' = reqs[s].pre.refs
                  /\ svcCalls' = reqs[s].pre.svcCalls
        /\ \A r \in refs :
              (\A q \in refs' : q.ap # r.ap) =>
                  \E s \in Slots :
                      /\ reqs'[s] # reqs[s]
                      /\ \/ reqs[s].act.type \in {"Delete", "Import"}
                         \/ reqs[s].act.type = "Undo" /\ reqs[s].act.inner = "Like" ]_vars

\* A Create{Note} was turned away by a claim row that a delivery answered
\* "failed to fetch actor" had left with an empty ccObjectID.
C36_Witness ==
    \E s \in Slots :
        /\ Done(s)
        /\ reqs[s].act.type = "Create"
        /\ reqs[s].body = "note already exists"
        /\ [ap |-> reqs[s].act.id, cc |-> NoCc] \in reqs[s].pre.refs
        /\ <<reqs[s].act, "failed to fetch actor">> \in reqs[s].pre.answered

\* ------------------------------------------------------------------ C37
\* C37: no step changes the ccObjectID of a cross-reference row that stays
\* in the table once it is not empty.
C37_CcObjectIDAssignedOnce ==
    [][ \A r \in refs, q \in refs' :
          (r.ap = q.ap /\ r.cc # NoCc) => q.cc = r.cc ]_vars

\* ------------------------------------------------------------------ C38
\* C38: with no ApEntity of the proxy CCID, a follower worker that handles
\* the event of a message whose author is the proxy POSTs nothing, and the
\* round of the association worker on an association whose author is the
\* proxy POSTs nothing.
C38_NoEchoToAP ==
    [][ (\A e \in entities : e.ccid # ProxyCCID) =>
          /\ \A k \in WorkerIDs :
                (/\ workers[k].state = "got"
                 /\ workers[k].msg.author = ProxyCCID
                 /\ workers'[k].state # "got") =>
                    /\ delivered' = delivered
                    /\ workers'[k].handled =
                          Append(workers[k].handled,
                                 [id |-> workers[k].msg.id, posted |-> FALSE])
          /\ (conv'.fn = "Association" /\ conv'.returned
                /\ conv'.arg.author = ProxyCCID) =>
                    conv'.out = <<>> /\ conv'.posted = 0 ]_vars

\* A worker has handled a message of the proxy without a POST and has POSTed
\* a message of alice, and the association worker has dropped a like of the
\* proxy on a message that came from AP.
C38_Witness ==
    /\ \E k \in WorkerIDs :
          /\ Len(workers[k].handled) = 2
          /\ \E i, j \in 1..2 : /\ workers[k].handled[i].posted
                                /\ ~workers[k].handled[j].posted
    /\ conv.fn = "Association" /\ conv.returned
    /\ conv.arg.author = ProxyCCID
    /\ BothMetaStrings(conv.arg.meta)
    /\ conv.err = "get ass author entity failed"

\* ------------------------------------------------------------------ C39
\* The CC messages made from the AP note of this id.
MessagesOf(note) == { m \in messages : m.origin = note }

\* C39: whenever no request is in flight, repeated or overlapping ImportNote
\* calls and Create{Note} deliveries have left at most one CC message for
\* one AP note.
C39_OneMessagePerNote ==
    Quiescent => \A n \in NoteIDs : Cardinality(MessagesOf(n)) <= 1

====
